---- MODULE Spec2Model ----
(***************************************************************************)
(* A model of the nodemonitor: the per-node chain view (RemoteNode in      *)
(* nodes/reporting.go), the fork finder and the monitor round              *)
(* (nodes/monitor.go) and the report (Report in the nodes package).        *)
(*                                                                         *)
(* NodeSpec drives one RemoteNode through UpdateLatest, BlockAt and HashAt *)
(* against a remote whose chain may advance and reorg and whose answers    *)
(* may fail or carry the wrong number.                                     *)
(* Spec drives a NodeMonitor over a fleet of RemoteNodes, one doChecks     *)
(* round per step, the remotes changing between rounds.                    *)
(* BadSpec drives the same rounds over remotes whose lists of bad blocks   *)
(* change between rounds.                                                  *)
(* BrokenSpec drives them over a fleet of which some endpoints answer no   *)
(* call at all.                                                            *)
(* RefreshSpec runs the head-refresh phase of doChecks goroutine by        *)
(* goroutine.                                                              *)
(* StopSpec drives NewMonitor, Start and Stop with the loop goroutine step *)
(* by step.                                                                *)
(* VulnSpec drives checkNode against a catalogue url that answers          *)
(* anything.                                                               *)
(* ListSpec attaches maps of bad blocks of any size to a report.           *)
(* SuperSpec drives monitorLoop: a monitor is stopped for a new            *)
(* configuration or an interrupt, and the next one is made.                *)
(* LockSpec runs the workers of forPairs call by call on the nodes' mu.    *)
(* ThrottleSpec drives one RemoteNode through every call that reaches its  *)
(* endpoint, Version and BadBlocks among them.                             *)
(* PairSpec runs the workers of forPairs closure by closure, the writes of *)
(* heads under headMu step by step; OrderSpec runs them in the scan of a   *)
(* later round.                                                            *)
(* TermSpec runs a whole round goroutine by goroutine under fair           *)
(* scheduling.                                                             *)
(*                                                                         *)
(* Left out: the header database behind RemoteNode (nodes are built with   *)
(* none, as in the tests), the vulnerability check within a round (it is   *)
(* driven on its own) and the backend a report is written to.              *)
(***************************************************************************)
EXTENDS Integers, Sequences, FiniteSets, TLC

VARIABLES
    remote,   \* remote[i]: the chain the endpoint of node i serves
    nodes,    \* nodes[i]: the RemoteNode of node i (latest, chainHistory, ...)
    now,      \* the clock, in seconds
    reorgs,   \* reorgs of the remotes so far
    faults,   \* faulty answers of the remotes so far
    last,     \* the last call on a RemoteNode: its arguments and results
    remoteBad, \* remoteBad[i]: the bad blocks the endpoint of node i lists
    mon,      \* the NodeMonitor (forkHeightCache, badBlocks, lastReport, ...)
    round,    \* bookkeeping of the last doChecks round
    refresh,  \* the UpdateLatest goroutines of a doChecks in progress
    life,     \* Start, loop and Stop of the monitor, and its database
    checks,   \* the vulnerability checks: checkCache, lastCheckUpdate
    scan      \* forPairs in progress: its channel, its workers, the nodes' mu

vars == <<remote, nodes, now, reorgs, faults, last, remoteBad, mon, round,
          refresh, life, checks, scan>>
monvars == <<remoteBad, mon, round>>
sysvars == <<refresh, life, checks, scan>>

\* ------------------------------------------------------------------ bounds
\* Highest block number a remote chain reaches.
MaxHeight == 2
\* Number of distinct fork seeds (seed 0 is the canonical chain).
MaxSeed == 1
\* UpdateLatest calls in a run of one RemoteNode (the clock advances by a
\* second with each).
MaxTime == 2
\* Reorgs of the remote in a run of one RemoteNode.
MaxReorgs == 1
\* Faulty answers (errors, wrong numbers) in a run of one RemoteNode.
MaxFaults == 1
\* Number of nodes the monitor is configured with.
NumNodes == 3
\* doChecks rounds in a run of the monitor, the one of NewMonitor included.
MaxRounds == 3
\* Changes of the remotes (advances, reorgs) in a run of the monitor.
MaxChanges == 1
\* Distinct bad block hashes the endpoints list.
MaxBad == 2
\* Entries in one endpoint's list of bad blocks.
MaxBadLen == 2
\* Changes of the endpoints' lists of bad blocks in a run of the monitor.
MaxBadChanges == 3
\* Endpoints unreachable during one round (MaxFaults bounds the rounds in
\* which an endpoint is unreachable).
MaxDown == 1

Heights == 0..MaxHeight
NodeIds == 1..NumNodes
Seeds == 1..MaxSeed

\* A nil *big.Int block number: the request for the latest block.
Latest == -1
\* common.Hash{}: the zero hash.
ZeroHash == <<0, 0, -1>>
\* A nil *blockInfo (no block, or the block of a failed call).
NoBlock == [num |-> -1, hash |-> ZeroHash, pHash |-> ZeroHash]

NodeStatusOK == 0
NodeStatusUnreachable == 1

\* ------------------------------------------------------------ remote chain
\* A remote chain, as the test nodes describe one: the canonical chain (seed
\* 0) below `fork`, the chain of `seed` from `fork` on, `head` its latest
\* block.  seed = 0 is the canonical chain throughout (fork is then 0).
Chains == { c \in [head : Heights, fork : Heights, seed : {0} \cup Seeds] :
              /\ c.fork <= c.head
              /\ (c.seed = 0 => c.fork = 0) }

seedAt(c, number) == IF c.seed # 0 /\ c.fork <= number THEN c.seed ELSE 0

\* The hash of the block at `number` on chain c.  A block hash commits to the
\* block's ancestry, so a forked block is identified by its seed, the height
\* its branch forked at, and its number.
hashFromSeed(c, number) ==
    IF seedAt(c, number) = 0 THEN <<0, 0, number>>
    ELSE <<seedAt(c, number), c.fork, number>>

\* The header the remote holds at `number`: a blockInfo's three fields.
Header(c, number) ==
    [ num   |-> number,
      hash  |-> hashFromSeed(c, number),
      pHash |-> IF number = 0 THEN ZeroHash ELSE hashFromSeed(c, number - 1) ]

\* A fault of the remote during one call: the answer to the request for
\* `at` (a height or Latest) is an error, or the header of another number.
\* ans = -1 is the error; at = -2 is no request at all (no fault).
NoFault == [at |-> -2, ans |-> -1]
\* The endpoint is unreachable: every request is answered with an error.
Down == [at |-> -3, ans |-> -1]
Faults == {NoFault}
          \cup [at : Heights \cup {Latest}, ans : {-1}]
          \cup { f \in [at : Heights, ans : Heights] : f.at # f.ans }

\* RPCMethodCaller.HeaderByNumber: the remote's answer to a request for num
\* (Latest when num is nil): a header, or NoBlock with an error (a transport
\* error, a nil header, a number the remote does not have).
HeaderByNumber(c, num, fault) ==
    IF fault = Down THEN NoBlock
    ELSE IF fault.at = num
    THEN IF fault.ans = -1 \/ fault.ans > c.head THEN NoBlock
         ELSE Header(c, fault.ans)
    ELSE IF num = Latest THEN Header(c, c.head)
    ELSE IF num > c.head THEN NoBlock
    ELSE Header(c, num)

\* ------------------------------------------------------------- RemoteNode
\* chainHistory is a map from height to blockInfo: a function on a subset of
\* the heights.
Put(ch, k, bl) == [x \in DOMAIN ch \cup {k} |-> IF x = k THEN bl ELSE ch[x]]
Delete(ch, k) == [x \in DOMAIN ch \ {k} |-> ch[x]]
EmptyMap == [x \in {} |-> NoBlock]

\* node.Version() failed, or no version known yet.
NoVersion == 0
\* The thirty seconds, in seconds, within which Version answers from
\* node.version.
VersionTTL == 30

\* NewRPCNode: a node with no latest block and an empty chainHistory; its
\* head gauge reads 0, its version was never asked (lastCheck holds the zero
\* time, more than thirty seconds ago).
NewRPCNode ==
    [ latest |-> NoBlock, chainHistory |-> EmptyMap, lastProgress |-> 0,
      badBlockCount |-> 0, status |-> NodeStatusOK, headGauge |-> 0,
      version |-> NoVersion, lastCheck |-> 0 - VersionTTL ]

\* The one element of a singleton set.  A result used more than once is
\* bound as the element of a singleton, r \in {f(x)}, so that it is computed
\* once.
The(S) == CHOOSE x \in S : TRUE

\* throttledGetHeader filing the block under the number asked for instead of
\* the number the header carries.
throttledGetHeaderKeyedByRequest(c, ch, num, fault) ==
    The({ IF h = NoBlock
          THEN [ch |-> ch, bl |-> NoBlock, err |-> TRUE, req |-> <<num>>]
          ELSE IF num # Latest /\ num # h.num
          THEN [ch |-> Put(ch, num, h), bl |-> NoBlock, err |-> TRUE,
                req |-> <<num>>]
          ELSE [ch |-> Put(ch, num, h), bl |-> h, err |-> FALSE,
                req |-> <<num>>]
          : h \in {HeaderByNumber(c, num, fault)} })

\* throttledGetHeader: one request to the remote.  The result carries the
\* chainHistory after the call, the block (NoBlock with an error), the error
\* flag and the requests made.  The header is filed in chainHistory before
\* its number is compared with the number asked for.
throttledGetHeader(c, ch, num, fault) ==
    The({ IF h = NoBlock
          THEN [ch |-> ch, bl |-> NoBlock, err |-> TRUE, req |-> <<num>>]
          ELSE IF num # Latest /\ num # h.num
          THEN [ch |-> Put(ch, h.num, h), bl |-> NoBlock, err |-> TRUE,
                req |-> <<num>>]
          ELSE [ch |-> Put(ch, h.num, h), bl |-> h, err |-> FALSE,
                req |-> <<num>>]
          : h \in {HeaderByNumber(c, num, fault)} })

\* A reconciliation loop that does not compare hashes: it wipes and refetches
\* every cached parent down to the first gap.
RECURSIVE reconcileToGap(_, _, _, _, _)
reconcileToGap(c, ch, current, fault, req) ==
    IF (current.num - 1) \notin DOMAIN ch
    THEN [ch |-> ch, req |-> req]
    ELSE The({ IF r.err
               THEN [ch |-> r.ch, req |-> req \o r.req]
               ELSE reconcileToGap(c, r.ch, r.bl, fault, req \o r.req)
               : r \in {throttledGetHeader(
                          c, Delete(ch, ch[current.num - 1].num),
                          ch[current.num - 1].num, fault)} })

\* The reconciliation loop of fetchHeader: while the cached parent of
\* `current` does not chain to it, wipe and refetch the parent.
RECURSIVE reconcile(_, _, _, _, _)
reconcile(c, ch, current, fault, req) ==
    IF (current.num - 1) \notin DOMAIN ch
    THEN [ch |-> ch, req |-> req]
    ELSE IF ch[current.num - 1].hash = current.pHash
    THEN [ch |-> ch, req |-> req]
    ELSE The({ IF r.err
               THEN [ch |-> r.ch, req |-> req \o r.req]
               ELSE reconcile(c, r.ch, r.bl, fault, req \o r.req)
               : r \in {throttledGetHeader(
                          c, Delete(ch, ch[current.num - 1].num),
                          ch[current.num - 1].num, fault)} })

\* fetchHeader: fetch num, then repair the parent chain below it.
fetchHeader(c, ch, num, fault) ==
    The({ IF r.err THEN r
          ELSE The({ [ch |-> rec.ch, bl |-> r.bl, err |-> FALSE,
                      req |-> rec.req]
                     : rec \in {reconcile(c, r.ch, r.bl, fault, r.req)} })
          : r \in {throttledGetHeader(c, ch, num, fault)} })

\* An UpdateLatest that forgets the node's blocks when the request fails.
UpdateLatestResetOnError(c, node, fault, time) ==
    The({ IF r.err
          THEN [node |-> [node EXCEPT !.chainHistory = EmptyMap,
                                      !.latest = NoBlock],
                err |-> TRUE, req |-> r.req, bl |-> NoBlock]
          ELSE IF node.latest = NoBlock \/ node.latest.hash # r.bl.hash
          THEN [node |-> [node EXCEPT !.chainHistory = r.ch, !.latest = r.bl,
                                      !.lastProgress = time,
                                      !.headGauge = r.bl.num],
                err |-> FALSE, req |-> r.req, bl |-> r.bl]
          ELSE [node |-> [node EXCEPT !.chainHistory = r.ch], err |-> FALSE,
                req |-> r.req, bl |-> r.bl]
          : r \in {fetchHeader(c, node.chainHistory, Latest, fault)} })

\* An UpdateLatest that takes every fetched head for progress.
UpdateLatestAlwaysProgress(c, node, fault, time) ==
    The({ IF r.err
          THEN [node |-> [node EXCEPT !.chainHistory = r.ch], err |-> TRUE,
                req |-> r.req, bl |-> NoBlock]
          ELSE [node |-> [node EXCEPT !.chainHistory = r.ch, !.latest = r.bl,
                                      !.lastProgress = time,
                                      !.headGauge = r.bl.num],
                err |-> FALSE, req |-> r.req, bl |-> r.bl]
          : r \in {fetchHeader(c, node.chainHistory, Latest, fault)} })

\* UpdateLatest: the node after the call, the error flag, the requests and
\* the head fetched.
UpdateLatest(c, node, fault, time) ==
    The({ IF r.err
          THEN [node |-> [node EXCEPT !.chainHistory = r.ch], err |-> TRUE,
                req |-> r.req, bl |-> NoBlock]
          ELSE IF node.latest = NoBlock \/ node.latest.hash # r.bl.hash
          THEN [node |-> [node EXCEPT !.chainHistory = r.ch, !.latest = r.bl,
                                      !.lastProgress = time,
                                      !.headGauge = r.bl.num],
                err |-> FALSE, req |-> r.req, bl |-> r.bl]
          ELSE [node |-> [node EXCEPT !.chainHistory = r.ch], err |-> FALSE,
                req |-> r.req, bl |-> r.bl]
          : r \in {fetchHeader(c, node.chainHistory, Latest, fault)} })

\* A BlockAt that skips the test for a future block when the fetch is forced.
BlockAtForceFirst(c, node, num, force, fault) ==
    IF ~force /\ node.latest # NoBlock /\ node.latest.num < num
    THEN [node |-> node, bl |-> NoBlock, req |-> <<>>]
    ELSE IF ~force /\ num \in DOMAIN node.chainHistory
    THEN [node |-> node, bl |-> node.chainHistory[num], req |-> <<>>]
    ELSE The({ [node |-> [node EXCEPT !.chainHistory = r.ch], bl |-> r.bl,
                req |-> r.req]
               : r \in {fetchHeader(c, node.chainHistory, num, fault)} })

\* A BlockAt that takes the block at latest for a future block as well.
BlockAtBelowLatest(c, node, num, force, fault) ==
    IF node.latest # NoBlock /\ node.latest.num <= num
    THEN [node |-> node, bl |-> NoBlock, req |-> <<>>]
    ELSE IF ~force /\ num \in DOMAIN node.chainHistory
    THEN [node |-> node, bl |-> node.chainHistory[num], req |-> <<>>]
    ELSE The({ [node |-> [node EXCEPT !.chainHistory = r.ch], bl |-> r.bl,
                req |-> r.req]
               : r \in {fetchHeader(c, node.chainHistory, num, fault)} })

\* BlockAt: the node after the call, the block returned (NoBlock for none) and
\* the requests made.
BlockAt(c, node, num, force, fault) ==
    IF node.latest # NoBlock /\ node.latest.num < num
    THEN [node |-> node, bl |-> NoBlock, req |-> <<>>]
    ELSE IF ~force /\ num \in DOMAIN node.chainHistory
    THEN [node |-> node, bl |-> node.chainHistory[num], req |-> <<>>]
    ELSE The({ [node |-> [node EXCEPT !.chainHistory = r.ch], bl |-> r.bl,
                req |-> r.req]
               : r \in {fetchHeader(c, node.chainHistory, num, fault)} })

\* A HashAt that does not look for the child of the block in chainHistory.
HashAtNoChild(c, node, num, force, fault) ==
    IF ~force /\ node.latest # NoBlock /\ node.latest.num < num
    THEN [node |-> node, hash |-> ZeroHash, req |-> <<>>]
    ELSE IF ~force /\ num \in DOMAIN node.chainHistory
    THEN [node |-> node, hash |-> node.chainHistory[num].hash, req |-> <<>>]
    ELSE The({ [node |-> [node EXCEPT !.chainHistory = r.ch],
                hash |-> IF r.bl # NoBlock THEN r.bl.hash ELSE ZeroHash,
                req |-> r.req]
               : r \in {fetchHeader(c, node.chainHistory, num, fault)} })

\* HashAt: the node after the call, the hash returned (ZeroHash for none)
\* and the requests made.
HashAt(c, node, num, force, fault) ==
    IF ~force /\ node.latest # NoBlock /\ node.latest.num < num
    THEN [node |-> node, hash |-> ZeroHash, req |-> <<>>]
    ELSE IF ~force /\ num \in DOMAIN node.chainHistory
    THEN [node |-> node, hash |-> node.chainHistory[num].hash, req |-> <<>>]
    ELSE IF ~force /\ (num + 1) \in DOMAIN node.chainHistory
    THEN [node |-> node, hash |-> node.chainHistory[num + 1].pHash,
          req |-> <<>>]
    ELSE The({ [node |-> [node EXCEPT !.chainHistory = r.ch],
                hash |-> IF r.bl # NoBlock THEN r.bl.hash ELSE ZeroHash,
                req |-> r.req]
               : r \in {fetchHeader(c, node.chainHistory, num, fault)} })

\* HeadNum: the number of latest, 0 when there is none.
HeadNum(node) == IF node.latest # NoBlock THEN node.latest.num ELSE 0

\* ------------------------------------------------------------ fork finder
\* Within a round the calls on the nodes are threaded through a record st:
\*   rem[i]     the chain the endpoint of node i serves during the round
\*   flt[i]     NoFault, or Down when the endpoint is unreachable
\*   ns[i]      the RemoteNode of node i
\*   fetched[i] the block numbers requested from the endpoint of node i
\*              (the number answered, for a request for the latest block)
\*   asked[i]   the block numbers BlockAt or HashAt of node i was called with
\*   nreq[i]    the number of calls made on the endpoint of node i
\*   byNum[i]   the block numbers requested by number from the endpoint of
\*              node i
\*   direct[i]  those of them BlockAt or HashAt of node i requested for the
\*              height it was asked (the others are the refetched parents of
\*              fetchHeader)
\*   seq        the BlockAt and HashAt calls of the round in their order,
\*              each as the node and the height
Requested(c, req) ==
    { IF req[k] = Latest THEN c.head ELSE req[k] : k \in 1..Len(req) }

ByNumber(req) == { req[k] : k \in 1..Len(req) } \ {Latest}

Touch(st, i, num, node, req) ==
    [st EXCEPT !.ns[i] = node,
               !.asked[i] = @ \cup {num},
               !.fetched[i] = @ \cup Requested(st.rem[i], req),
               !.nreq[i] = @ + Len(req),
               !.byNum[i] = @ \cup ByNumber(req),
               !.direct[i] = @ \cup (IF Len(req) > 0 THEN {req[1]} ELSE {}),
               !.seq = Append(@, <<i, num>>)]

\* a.HashAt(num, false) on node i.
nodeHashAt(st, i, num) ==
    The({ [st |-> Touch(st, i, num, r.node, r.req), hash |-> r.hash]
          : r \in {HashAt(st.rem[i], st.ns[i], num, FALSE, st.flt[i])} })

\* a.BlockAt(num, false) on node i.
nodeBlockAt(st, i, num) ==
    The({ [st |-> Touch(st, i, num, r.node, r.req), bl |-> r.bl]
          : r \in {BlockAt(st.rem[i], st.ns[i], num, FALSE, st.flt[i])} })

\* a.HashAt(num, false), then b.HashAt(num, false).
hashesAt(st, a, b, num) ==
    The({ The({ [st |-> rb.st, a |-> ra.hash, b |-> rb.hash]
                : rb \in {nodeHashAt(ra.st, b, num)} })
          : ra \in {nodeHashAt(st, a, num)} })

\* The first loop of findSplit: the cached heights from the last index down
\* to index 1 of the Go slice (k is the 1-based index here, so down to 2).
RECURSIVE replay(_, _, _, _, _)
replay(st, forkHeightCache, k, a, b) ==
    IF k < 2 THEN [st |-> st, found |-> FALSE, split |-> 0]
    ELSE
      The({ IF h.a # h.b
            THEN IF forkHeightCache[k] = 0
                 THEN [st |-> h.st, found |-> TRUE,
                       split |-> forkHeightCache[k]]
                 ELSE The({ IF p.a = p.b
                            THEN [st |-> p.st, found |-> TRUE,
                                  split |-> forkHeightCache[k]]
                            ELSE replay(p.st, forkHeightCache, k - 1, a, b)
                            : p \in {hashesAt(h.st, a, b,
                                              forkHeightCache[k] - 1)} })
            ELSE replay(h.st, forkHeightCache, k - 1, a, b)
            : h \in {hashesAt(st, a, b, forkHeightCache[k])} })

\* sort.Search(n, f) with f(i) = the two nodes' hashes differ at left+i: the
\* loop over [i, j), started with i = 0 and j = n.
RECURSIVE search(_, _, _, _, _, _)
search(st, i, j, left, a, b) ==
    IF i < j
    THEN The({ IF h.a # h.b
               THEN search(h.st, i, (i + j) \div 2, left, a, b)
               ELSE search(h.st, ((i + j) \div 2) + 1, j, left, a, b)
               : h \in {hashesAt(st, a, b, left + ((i + j) \div 2))} })
    ELSE [st |-> st, i |-> i]

\* left of findSplit: the first (highest) cached height, 0 without any.
leftOf(forkHeightCache) ==
    IF Len(forkHeightCache) > 0 THEN forkHeightCache[1] ELSE 0

\* findSplit(forkHeightCache, num, a, b).
findSplit(st, forkHeightCache, num, a, b) ==
    The({ IF rp.found THEN [st |-> rp.st, split |-> rp.split]
          ELSE The({ [st |-> sr.st,
                      split |-> sr.i + leftOf(forkHeightCache)]
                     : sr \in {search(rp.st, 0,
                                      num - leftOf(forkHeightCache),
                                      leftOf(forkHeightCache), a, b)} })
          : rp \in {replay(st, forkHeightCache, Len(forkHeightCache),
                           a, b)} })

\* A seedHeads that keeps every active node for the pair scan.
RECURSIVE seedHeadsEveryNode(_, _, _)
seedHeadsEveryNode(acc, activeNodes, k) ==
    IF k > Len(activeNodes) THEN acc
    ELSE
      The({ IF r.bl = NoBlock
            THEN [acc EXCEPT !.st = r.st, !.panic = TRUE]
            ELSE The({ seedHeadsEveryNode(next, activeNodes, k + 1)
                       : next \in {[acc EXCEPT
                            !.st = r.st,
                            !.heads = @ \cup {r.bl.num},
                            !.seen = @ \cup {r.bl.hash},
                            !.distinctNodes = Append(@, activeNodes[k])]} })
            : r \in {nodeBlockAt(acc.st, activeNodes[k],
                                 HeadNum(acc.st.ns[activeNodes[k]]))} })

\* The first loop of findSplits, over activeNodes[k..]: the block at each
\* node's head seeds heads, and the first node of every distinct head hash is
\* kept.  A nil block is dereferenced there: acc.panic.
RECURSIVE seedHeads(_, _, _)
seedHeads(acc, activeNodes, k) ==
    IF k > Len(activeNodes) THEN acc
    ELSE
      The({ IF r.bl = NoBlock
            THEN [acc EXCEPT !.st = r.st, !.panic = TRUE]
            ELSE The({ seedHeads(next, activeNodes, k + 1)
                       : next \in {[acc EXCEPT
                            !.st = r.st,
                            !.heads = @ \cup {r.bl.num},
                            !.seen = @ \cup {r.bl.hash},
                            !.distinctNodes =
                                IF r.bl.hash \in acc.seen THEN @
                                ELSE Append(@, activeNodes[k])]} })
            : r \in {nodeBlockAt(acc.st, activeNodes[k],
                                 HeadNum(acc.st.ns[activeNodes[k]]))} })

\* highest of the closure: the lower of the two nodes' HeadNum.
highestOf(st, a, b) ==
    IF HeadNum(st.ns[b]) < HeadNum(st.ns[a]) THEN HeadNum(st.ns[b])
    ELSE HeadNum(st.ns[a])

\* The heights up to highest at which HashAt of the two nodes differ.
differsAt(st, a, b, highest) ==
    { n \in 0..highest :
        The({ h.a # h.b : h \in {hashesAt(st, a, b, n)} }) }

\* The heights node a was asked for between two points of a round, in the
\* order of the calls.
examinedOf(before, after, a) ==
    The({ [k \in 1..Len(q) |-> q[k][2]]
          : q \in {SelectSeq(SubSeq(after.seq, Len(before.seq) + 1,
                                     Len(after.seq)),
                              LAMBDA e : e[1] = a)} })

\* The closure findSplits hands to forPairs, for the pair (a, b).  A call of
\* findSplit is recorded in acc.calls with its arguments, its result, the
\* heights it asked node a for, the result of the same call without a cache
\* (plain) and the heights up to highest at which the two nodes' HashAt differ
\* after the call.
crossCheck(acc, forkHeightCache, a, b) ==
    The({ IF ha.bl = NoBlock THEN [acc EXCEPT !.st = ha.st]
          ELSE The({
            IF hb.bl = NoBlock THEN [acc EXCEPT !.st = hb.st]
            ELSE IF ha.bl.hash = hb.bl.hash THEN [acc EXCEPT !.st = hb.st]
            ELSE The({
              [acc EXCEPT
                 !.st = fs.st,
                 !.splitSize =
                     IF @ < highestOf(acc.st, a, b) - fs.split
                     THEN highestOf(acc.st, a, b) - fs.split ELSE @,
                 !.heads = @ \cup {fs.split}
                             \cup (IF fs.split > 0 THEN {fs.split - 1}
                                   ELSE {}),
                 !.calls = @ \cup
                     {[a |-> a, b |-> b,
                       highest |-> highestOf(acc.st, a, b),
                       cache |-> forkHeightCache,
                       split |-> fs.split,
                       examined |-> examinedOf(hb.st, fs.st, a),
                       plain |-> findSplit(hb.st, <<>>,
                                           highestOf(acc.st, a, b),
                                           a, b).split,
                       differs |-> differsAt(fs.st, a, b,
                                             highestOf(acc.st, a, b))]}]
              : fs \in {findSplit(hb.st, forkHeightCache,
                                  highestOf(acc.st, a, b), a, b)} })
            : hb \in {nodeBlockAt(ha.st, b, highestOf(acc.st, a, b))} })
          : ha \in {nodeBlockAt(acc.st, a, highestOf(acc.st, a, b))} })

\* forPairs: every pair (list[i], list[j]) with i < j, in the order the
\* producer queues them, taken one after the other: the schedule of a single
\* worker (runtime.NumCPU() = 1).  acc.pairs records the pairs handed to the
\* closure.
RECURSIVE forPairs(_, _, _, _, _)
forPairs(acc, forkHeightCache, list, i, j) ==
    IF i > Len(list) THEN acc
    ELSE IF j > Len(list)
         THEN forPairs(acc, forkHeightCache, list, i + 1, i + 2)
         ELSE The({ forPairs(next, forkHeightCache, list, i, j + 1)
                    : next \in {crossCheck(
                                  [acc EXCEPT
                                     !.pairs = @ \cup {<<list[i], list[j]>>}],
                                  forkHeightCache, list[i], list[j])} })

\* The splitLength values of the closure's calls that make it write
\* splitSize.
splitLengths(calls) ==
    { l \in { c.highest - c.split : c \in calls } : l > 0 }

\* splitSize when findSplits publishes it.  The closure reads and writes
\* splitSize outside headMu: with one worker (runtime.NumCPU() = 1) it ends
\* as the largest splitLength, with more workers the reads and writes of
\* several closures interleave and any of them may write last.
splitSizes(calls, splitSize) ==
    IF splitLengths(calls) = {} THEN {splitSize} ELSE splitLengths(calls)

\* findSplits(activeNodes): heads, and as bookkeeping the findSplit calls.
findSplits(st, forkHeightCache, activeNodes) ==
    The({ IF seeded.panic THEN seeded
          ELSE forPairs(seeded, forkHeightCache, seeded.distinctNodes, 1, 2)
          : seeded \in {seedHeads([st |-> st, heads |-> {}, seen |-> {},
                                   distinctNodes |-> <<>>, splitSize |-> 0,
                                   calls |-> {}, pairs |-> {},
                                   panic |-> FALSE],
                                  activeNodes, 1)} })

\* The pair scan over every active node instead of one node per head hash:
\* its heads and its splitSize, for the round findSplits scanned as fs.  Where
\* findSplits kept every active node the two scans are the same.
everyPair(st, forkHeightCache, activeNodes, fs) ==
    IF fs.panic \/ Len(fs.distinctNodes) = Len(activeNodes)
    THEN [heads |-> fs.heads, splitSize |-> fs.splitSize]
    ELSE The({ [heads |-> e.heads, splitSize |-> e.splitSize]
               : e \in {forPairs(
                          seedHeads([st |-> st, heads |-> {}, seen |-> {},
                                     distinctNodes |-> <<>>, splitSize |-> 0,
                                     calls |-> {}, pairs |-> {},
                                     panic |-> FALSE],
                                    activeNodes, 1),
                          forkHeightCache, activeNodes, 1, 2)} })

\* ----------------------------------------------------------------- report
RECURSIVE SortAsc(_)
SortAsc(S) ==
    IF S = {} THEN <<>>
    ELSE The({ <<m>> \o SortAsc(S \ {m})
               : m \in { x \in S : \A y \in S : x <= y } })

\* sort.Sort(sort.Reverse(sort.IntSlice(headList))) of the keys of heads.
RECURSIVE SortDesc(_)
SortDesc(S) ==
    IF S = {} THEN <<>>
    ELSE The({ <<m>> \o SortDesc(S \ {m})
               : m \in { x \in S : \A y \in S : y <= x } })

\* A cell of Report.Rows: fmt.Sprintf("0x%x", hash) is one text per hash, so
\* the cell is the hash; "" is EmptyCell.
EmptyCell == <<>>

\* NewReport(headList, chainName).
NewReport(headList) ==
    [Numbers |-> headList, Cols |-> <<>>,
     Rows |-> [n \in {} |-> <<>>], Hashes |-> <<>>, BadBlocks |-> <<>>]

\* Report.dedup: Hashes through a map and back to a list.  The map's order
\* is not defined; the list is given in the order of the first occurrences.
RECURSIVE dedupFrom(_, _, _)
dedupFrom(hashes, k, out) ==
    IF k > Len(hashes) THEN out
    ELSE dedupFrom(hashes, k + 1,
                   IF \E m \in 1..Len(out) : out[m] = hashes[k] THEN out
                   ELSE Append(out, hashes[k]))

dedupDropped(hashes) == hashes

dedup(hashes) == dedupFrom(hashes, 1, <<>>)

\* The loop of AddToReport over r.Numbers[k..] for node i.
RECURSIVE addRows(_, _, _)
addRows(acc, i, k) ==
    IF k > Len(acc.r.Numbers) THEN acc
    ELSE
      The({ The({ addRows(next, i, k + 1)
                  : next \in {[st |-> b.st,
                               r |-> [acc.r EXCEPT
                                  !.Hashes = IF b.bl # NoBlock
                                             THEN Append(@, b.bl.hash)
                                             ELSE @,
                                  !.Rows = Put(@, acc.r.Numbers[k],
                                    Append(IF acc.r.Numbers[k] \in DOMAIN @
                                           THEN @[acc.r.Numbers[k]]
                                           ELSE <<>>,
                                           IF b.bl # NoBlock THEN b.bl.hash
                                           ELSE EmptyCell))]]} })
            : b \in {nodeBlockAt(acc.st, i, acc.r.Numbers[k])} })

\* A clientJson that does not read the node's status.
clientJsonStatusOK(node, i) ==
    [Name |-> i, Status |-> NodeStatusOK, LastProgress |-> node.lastProgress,
     BadBlocks |-> node.badBlockCount]

\* The clientJson of node i.
clientJson(node, i) ==
    [Name |-> i, Status |-> node.status, LastProgress |-> node.lastProgress,
     BadBlocks |-> node.badBlockCount]

\* An AddToReport that leaves unreachable nodes out of the report.
AddToReportIfReachable(acc, i) ==
    IF acc.st.ns[i].status = NodeStatusUnreachable THEN acc
    ELSE
    The({ The({ [rows EXCEPT !.r.Hashes = dedup(@)]
                : rows \in {addRows(first, i, 1)} })
          : first \in {[acc EXCEPT
                          !.r.Cols = Append(@, clientJson(acc.st.ns[i], i))]} })

\* Report.AddToReport(node, vuln) for node i.
AddToReport(acc, i) ==
    The({ The({ [rows EXCEPT !.r.Hashes = dedup(@)]
                : rows \in {addRows(first, i, 1)} })
          : first \in {[acc EXCEPT
                          !.r.Cols = Append(@, clientJson(acc.st.ns[i], i))]} })

\* The loop of doChecks over mon.nodes[i..].
RECURSIVE reportNodes(_, _)
reportNodes(acc, i) ==
    IF i > NumNodes THEN acc
    ELSE The({ reportNodes(next, i + 1) : next \in {AddToReport(acc, i)} })

\* ------------------------------------------------------------- bad blocks
\* An endpoint's answer to debug_getBadBlocks is a list of [hash, number]:
\* number is the number in the block's RLP, NilNumber when the RLP does not
\* decode (badBlockJson.Number stays nil).
NilNumber == -1

\* RemoteNode.BadBlocks for node i: one call of GetBadBlocks on the endpoint;
\* its list, counted in badBlockCount, or an empty list, and no count, when
\* the call fails.
BadBlocks(st, bad, i) ==
    IF st.flt[i] = Down
    THEN [st |-> [st EXCEPT !.nreq[i] = @ + 1], args |-> <<>>]
    ELSE [st |-> [st EXCEPT !.ns[i].badBlockCount = Len(bad[i]),
                            !.nreq[i] = @ + 1],
          args |-> bad[i]]

\* getBadBlocks(node) for node i.
getBadBlocks(st, bad, i) ==
    The({ [st |-> r.st,
           blocks |-> [k \in 1..Len(r.args) |->
                         [Clients |-> <<i>>, Hash |-> r.args[k].hash,
                          Number |-> r.args[k].number]]]
          : r \in {BadBlocks(st, bad, i)} })

RECURSIVE mergeBadBlocksAppendAlways(_, _, _, _)
mergeBadBlocksAppendAlways(badBlocks, blocks, i, k) ==
    IF k > Len(blocks) THEN badBlocks
    ELSE The({ mergeBadBlocksAppendAlways(next, blocks, i, k + 1)
               : next \in {
                   IF blocks[k].Hash \notin DOMAIN badBlocks
                   THEN Put(badBlocks, blocks[k].Hash, blocks[k])
                   ELSE [badBlocks EXCEPT
                           ![blocks[k].Hash].Clients = Append(@, i)]} })

\* The inner loop of checkBadBlocks over blocks[k..] of node i.
RECURSIVE mergeBadBlocks(_, _, _, _)
mergeBadBlocks(badBlocks, blocks, i, k) ==
    IF k > Len(blocks) THEN badBlocks
    ELSE The({ mergeBadBlocks(next, blocks, i, k + 1)
               : next \in {
                   IF blocks[k].Hash \notin DOMAIN badBlocks
                   THEN Put(badBlocks, blocks[k].Hash, blocks[k])
                   ELSE IF \E c \in 1..Len(badBlocks[blocks[k].Hash].Clients) :
                             badBlocks[blocks[k].Hash].Clients[c] = i
                   THEN badBlocks
                   ELSE [badBlocks EXCEPT
                           ![blocks[k].Hash].Clients = Append(@, i)]} })

\* The outer loop of checkBadBlocks over mon.nodes[i..].
RECURSIVE sweepBadBlocks(_, _, _)
sweepBadBlocks(acc, bad, i) ==
    IF i > NumNodes THEN acc
    ELSE The({ The({ sweepBadBlocks(next, bad, i + 1)
                     : next \in {[st |-> g.st,
                                  badBlocks |-> mergeBadBlocks(
                                      acc.badBlocks, g.blocks, i, 1)]} })
               : g \in {getBadBlocks(acc.st, bad, i)} })

\* time.Minute, in seconds, and the reload interval NewMonitor falls back to.
Minute == 60
DefaultReload == 10

\* checkBadBlocks at the given time: at most one sweep a minute.
checkBadBlocks(m, st, bad, time) ==
    IF time - m.lastBadBlocks < Minute THEN [m |-> m, st |-> st]
    ELSE The({ [m |-> [m EXCEPT !.lastBadBlocks = time,
                                !.badBlocks = sw.badBlocks],
                st |-> sw.st]
               : sw \in {sweepBadBlocks(
                           [st |-> st, badBlocks |-> m.badBlocks], bad, 1)} })

\* The most bad blocks a report shows.
MaxShown == 20

\* A sort of r.BadBlocks that is not reversed.
RECURSIVE sortBadBlocksAscending(_, _)
sortBadBlocksAscending(badBlocks, keys) ==
    IF keys = {} THEN <<>>
    ELSE The({ <<m>> \o sortBadBlocksAscending(badBlocks, keys \ {m})
               : m \in { h \in keys :
                           \A g \in keys :
                              \/ badBlocks[g].Number > badBlocks[h].Number
                              \/ /\ badBlocks[g].Number = badBlocks[h].Number
                                 /\ h <= g } })

\* sort.Sort(sort.Reverse(r.BadBlocks)): the entries, named by their hashes,
\* by descending Number.  The order of entries of one Number is not defined;
\* they are given by ascending hash.
RECURSIVE sortBadBlocks(_, _)
sortBadBlocks(badBlocks, keys) ==
    IF keys = {} THEN <<>>
    ELSE The({ <<m>> \o sortBadBlocks(badBlocks, keys \ {m})
               : m \in { h \in keys :
                           \A g \in keys :
                              \/ badBlocks[g].Number < badBlocks[h].Number
                              \/ /\ badBlocks[g].Number = badBlocks[h].Number
                                 /\ h <= g } })

\* Report.addBadBlocks(badBlocks).  Less is Number.Cmp(Number): of two nil
\* Numbers Cmp returns 0 (the two pointers are the same), of a nil and a
\* decoded one it dereferences the nil.  The sort compares every entry with
\* a neighbour, so with entries of both kinds it panics.
addBadBlocks(r, badBlocks) ==
    IF /\ \E h \in DOMAIN badBlocks : badBlocks[h].Number = NilNumber
       /\ \E h \in DOMAIN badBlocks : badBlocks[h].Number # NilNumber
    THEN [r |-> r, panic |-> TRUE]
    ELSE The({ [r |-> [r EXCEPT !.BadBlocks =
                         IF Len(sorted) > MaxShown
                         THEN SubSeq(sorted, 1, MaxShown) ELSE sorted],
                panic |-> FALSE]
               : sorted \in {sortBadBlocks(badBlocks, DOMAIN badBlocks)} })

\* ----------------------------------------------------------------- round
\* mon.nodes in the order of their names: sort.Slice by Name.  Node 1 has
\* the last name, the others follow in their order.
NameRank(i) == IF i = 1 THEN NumNodes ELSE i - 1

RECURSIVE SortByName(_)
SortByName(S) ==
    IF S = {} THEN <<>>
    ELSE The({ <<m>> \o SortByName(S \ {m})
               : m \in { x \in S : \A y \in S : NameRank(x) <= NameRank(y) } })

\* The goroutines doChecks starts, one per node: UpdateLatest, then the
\* status from its error.  Each touches its own node only.
updateAll(st, time) ==
    The({ [st EXCEPT
             !.ns = [i \in NodeIds |->
                       [upd[i].node EXCEPT
                          !.status = IF upd[i].err THEN NodeStatusUnreachable
                                     ELSE NodeStatusOK]],
             !.fetched = [i \in NodeIds |->
                            @[i] \cup Requested(st.rem[i], upd[i].req)],
             !.nreq = [i \in NodeIds |-> @[i] + Len(upd[i].req)],
             !.byNum = [i \in NodeIds |-> @[i] \cup ByNumber(upd[i].req)]]
          : upd \in {[i \in NodeIds |->
                        UpdateLatest(st.rem[i], st.ns[i], st.flt[i], time)]} })

\* NewMonitor's NodeMonitor: no report, no bad blocks, an empty
\* forkHeightCache, lastBadBlocks the zero time (here: a minute before the
\* clock's start).
NoReport == NewReport(<<>>)
NewMonitor ==
    [forkHeightCache |-> <<>>, badBlocks |-> [h \in {} |-> 0],
     lastBadBlocks |-> 0 - Minute, lastReport |-> NoReport,
     panicked |-> FALSE]

\* The nodes of status OK, by name.
activeNodesOf(st) ==
    SortByName({ i \in NodeIds : st.ns[i].status = NodeStatusOK })

\* The nodes whose UpdateLatest failed in this round.
failedOf(st) == { i \in NodeIds : st.ns[i].status = NodeStatusUnreachable }

\* The nodes of `failed` whose endpoint was called between two points of a
\* round.
Late(before, after, failed) ==
    { i \in failed : after.nreq[i] > before.nreq[i] }

\* doChecks after findSplits returned fs: the head list, the report, the bad
\* blocks.  st1 is the round after the UpdateLatest goroutines.
finishChecks(m, bad, time, st1, fs, activeNodes) ==
    The({ The({ The({
        [m |-> IF ab.panic THEN [cb.m EXCEPT !.panicked = TRUE]
               ELSE [cb.m EXCEPT !.lastReport = ab.r],
         st |-> cb.st, calls |-> fs.calls, pairs |-> fs.pairs,
         splitSize |-> fs.splitSize,
         heads |-> fs.heads,
         every |-> everyPair(st1, m.forkHeightCache, activeNodes, fs),
         activeNodes |-> activeNodes,
         failed |-> failedOf(st1),
         late |-> [scan |-> Late(st1, fs.st, failedOf(st1)),
                   report |-> Late(fs.st, rep.st, failedOf(st1)),
                   sweep |-> Late(rep.st, cb.st, failedOf(st1))]]
        : ab \in {addBadBlocks(rep.r, cb.m.badBlocks)} })
      : cb \in {checkBadBlocks(
                  [m EXCEPT !.forkHeightCache = SortDesc(fs.heads)],
                  rep.st, bad, time)} })
    : rep \in {reportNodes([st |-> fs.st,
                            r |-> NewReport(SortDesc(fs.heads))], 1)} })

\* doChecks from the sorted activeNodes on: findSplits, the report, the bad
\* blocks.
afterRefresh(m, bad, time, st1, activeNodes) ==
    The({ IF fs.panic
          THEN [m |-> [m EXCEPT !.panicked = TRUE], st |-> fs.st,
                calls |-> fs.calls, pairs |-> fs.pairs,
                splitSize |-> fs.splitSize,
                heads |-> fs.heads,
                every |-> everyPair(st1, m.forkHeightCache, activeNodes, fs),
                activeNodes |-> activeNodes,
                failed |-> failedOf(st1),
                late |-> [scan |-> Late(st1, fs.st, failedOf(st1)),
                          report |-> {}, sweep |-> {}]]
          ELSE finishChecks(m, bad, time, st1, fs, activeNodes)
          : fs \in {findSplits(st1, m.forkHeightCache, activeNodes)} })

\* The round's record when doChecks begins: the endpoints in up reachable,
\* nothing asked yet.
startRound(rem, ns, up) ==
    [rem |-> rem, ns |-> ns,
     flt |-> [i \in NodeIds |-> IF i \in up THEN NoFault ELSE Down],
     fetched |-> [i \in NodeIds |-> {}],
     asked |-> [i \in NodeIds |-> {}],
     nreq |-> [i \in NodeIds |-> 0],
     byNum |-> [i \in NodeIds |-> {}],
     direct |-> [i \in NodeIds |-> {}],
     seq |-> <<>>]

\* doChecks at the given time, with the endpoints serving rem and bad, those
\* in up reachable: the monitor after it, the nodes, and what the round asked.
doChecks(m, rem, ns, bad, up, time) ==
    The({ afterRefresh(m, bad, time, st1, activeNodesOf(st1))
          : st1 \in {updateAll(startRound(rem, ns, up), time)} })

\* ------------------------------------------------- goroutines, lifecycle
\* No doChecks in progress.  During the head-refresh phase of a doChecks,
\* pc[i] is the position of node i's goroutine ("start", "updated" after
\* UpdateLatest, "status" after SetStatus, "done" after its send on doneCh),
\* err[i] and req[i] the error and the requests of its UpdateLatest,
\* received the nodes in the order doneCh delivered them, active the
\* activeNodes appended so far and before the nodes as the round found them.
NoRefresh ==
    [phase |-> "idle", up |-> {}, time |-> 0,
     before |-> [i \in NodeIds |-> NewRPCNode],
     pc |-> [i \in NodeIds |-> "none"],
     err |-> [i \in NodeIds |-> FALSE],
     req |-> [i \in NodeIds |-> <<>>],
     received |-> <<>>, active |-> <<>>]

\* The monitor's life before NewMonitor: made after NewMonitor returned,
\* started after Start, quit when quitCh is closed, wg the WaitGroup's
\* counter, loop the position of the loop goroutine ("none", "select",
\* "round" inside doChecks, "done" after its return), stop the position of
\* Stop ("none", "closed" after close(quitCh), "waited" after wg.Wait,
\* "returned"), dbClosed after the backend's database was closed, closedIn
\* the position of the loop when Stop closed quitCh.  Under monitorLoop, why
\* is what Stop was called for ("restart" after a change of the
\* configuration file, "exit" after an interrupt), gen the number of the
\* monitor among those monitorLoop made, and replaced the monitors before
\* it, each as it was when monitorLoop went on to make the next.
NoLife ==
    [made |-> FALSE, started |-> FALSE, quit |-> FALSE, wg |-> 0,
     loop |-> "none", stop |-> "none", dbClosed |-> FALSE,
     closedIn |-> "none", why |-> "none", gen |-> 1, replaced |-> {}]

\* The workers of forPairs (runtime.NumCPU() of them), and the calls a
\* closure makes on the nodes of its pair.
NumWorkers == 2
MaxCalls == 2
Workers == 1..NumWorkers

\* No forPairs in progress: nothing on its channel, no worker running, every
\* node's mu free.
NoWorker ==
    [pc |-> "none", pair |-> <<>>, left |-> 0, node |-> 0, op |-> "none",
     num |-> 0, cur |-> NoBlock, repair |-> FALSE, split |-> -1,
     seen |-> {}]
\* sent lists the pairs received from the channel with the worker that
\* received each; found holds the splits the closures computed; over is set
\* when forPairs has returned; start holds the nodes as findSplits found
\* them.
NoScan ==
    [pairs |-> <<>>, closed |-> FALSE, w |-> [k \in Workers |-> NoWorker],
     mu |-> [i \in NodeIds |-> 0], sent |-> <<>>, heads |-> {},
     found |-> {}, headMu |-> 0, splitSize |-> 0, over |-> FALSE,
     elems |-> <<>>, start |-> <<>>]

\* ------------------------------------------------ vulnerability checks
\* Versions a node may report, entries of a vulnerability catalogue and the
\* length of a catalogue.
MaxVersion == 2
MaxUid == 2
MaxCatalogue == 2
\* checkNode calls in a run.
MaxChecks == 2

Versions == 1..MaxVersion

\* The Check of a catalogue entry: a regular expression, taken for the set
\* of versions it matches, or one that does not compile.
BadRegex == {NoVersion}
Regexes == (SUBSET Versions) \cup {BadRegex}

\* A vulnJson: its Uid and its Check.
VulnJsons == [Uid : 1..MaxUid, Check : Regexes]

RECURSIVE SeqsUpTo(_, _)
SeqsUpTo(S, n) ==
    IF n = 0 THEN {<<>>}
    ELSE SeqsUpTo(S, n - 1)
         \cup { Append(q, e) : q \in { x \in SeqsUpTo(S, n - 1) :
                                          Len(x) = n - 1 }, e \in S }

\* What the GET of the catalogue's url may give: an error of the transport,
\* a body that is not the JSON of a list of vulnJson, or a list.
TransportError == [kind |-> "transport", list |-> <<>>]
InvalidJson == [kind |-> "json", list |-> <<>>]
Answers ==
    {TransportError, InvalidJson}
    \cup { [kind |-> "list", list |-> l] : l \in SeqsUpTo(VulnJsons, MaxCatalogue) }

\* A nil []vulnJson, and a slice.
NilVulns == [nil |-> TRUE, list |-> <<>>]
Vulns(list) == [nil |-> FALSE, list |-> list]

\* c.regex.MatchString(version).
MatchString(c, version) == version \in c.Check

\* fetchChecks (disableVulnCheck not set): the checks and the error.  Any
\* error returns an empty slice with it; an entry whose Check does not
\* compile is one.
fetchChecks(answer) ==
    IF answer.kind # "list" THEN [checks |-> Vulns(<<>>), err |-> TRUE]
    ELSE IF \E k \in 1..Len(answer.list) : answer.list[k].Check = BadRegex
    THEN [checks |-> Vulns(<<>>), err |-> TRUE]
    ELSE [checks |-> Vulns(answer.list), err |-> FALSE]

\* The ten minutes of checkNode, in seconds.
CheckTTL == 10 * Minute

\* The entries of the catalogue that match the version.
Matching(list, version) ==
    SelectSeq(list, LAMBDA c : MatchString(c, version))

\* checkNode from the test of the version on.
matchVersion(c, version) ==
    IF version = NoVersion THEN [c |-> c, v |-> NilVulns, err |-> TRUE]
    ELSE IF Matching(c.checkCache.list, version) = <<>>
    THEN [c |-> c, v |-> NilVulns, err |-> FALSE]
    ELSE [c |-> c, v |-> Vulns(Matching(c.checkCache.list, version)),
          err |-> FALSE]

\* checkNode calls fetchChecks.
fetches(c, time) ==
    ~c.checkCache.nil \/ time - c.lastCheckUpdate > CheckTTL

\* checkNode at the given time: the package's checkCache and
\* lastCheckUpdate after it, the entries returned and the error.
checkNode(c, answer, version, time) ==
    IF fetches(c, time)
    THEN The({ IF r.err THEN [c |-> c, v |-> NilVulns, err |-> TRUE]
               ELSE matchVersion([c EXCEPT !.checkCache = r.checks],
                                 version)
               : r \in {fetchChecks(answer)} })
    ELSE matchVersion(c, version)

\* The package's variables before the first checkNode: a nil checkCache, and
\* lastCheckUpdate the zero time (here: more than ten minutes before the
\* clock's start); n counts the calls, call is the last of them, and
\* lastFetch the time of the last call of fetchChecks (NoFetch before the
\* first).  since, of a call, are the seconds from the fetchChecks before it
\* to the call (NoFetch when there was none).
NoFetch == -1
NoCheck ==
    [answer |-> TransportError, version |-> NoVersion, before |-> NilVulns,
     fetched |-> FALSE, v |-> NilVulns, err |-> FALSE, since |-> NoFetch]
NoChecks ==
    [checkCache |-> NilVulns, lastCheckUpdate |-> 0 - CheckTTL - 1,
     n |-> 0, call |-> NoCheck, lastFetch |-> NoFetch]

\* ---------------------------------------------------- one RemoteNode's runs
\* The calls are made on the first configured node; the others stay as
\* constructed.
NoCall ==
    [ op |-> "none", num |-> -2, force |-> FALSE, wrong |-> FALSE,
      err |-> FALSE, bl |-> NoBlock, hash |-> ZeroHash, nreq |-> 0,
      tokens |-> 0, ver |-> NoVersion, req |-> <<>> ]

ReqSet(req) == { req[i] : i \in 1..Len(req) }

\* A fault is one of the call: it is about a request the call makes.
FaultOf(fault, req) == fault = NoFault \/ fault.at \in ReqSet(req)

\* No round yet.
NoRound ==
    [n |-> 0, up |-> {}, activeNodes |-> <<>>, calls |-> {}, pairs |-> {},
     asked |-> [i \in NodeIds |-> {}], fetched |-> [i \in NodeIds |-> {}],
     changes |-> 0, changed |-> FALSE, quiet |-> FALSE, newAsked |-> FALSE,
     newFetched |-> FALSE, failed |-> {},
     late |-> [scan |-> {}, report |-> {}, sweep |-> {}],
     back |-> {}, kept |-> {},
     refetched |-> [i \in NodeIds |-> {}],
     direct |-> [i \in NodeIds |-> {}], gauge |-> 0,
     heads |-> {}, splitSize |-> 0,
     every |-> [heads |-> {}, splitSize |-> 0]]

\* The remote starts on the canonical chain, at any head.
NodeInit ==
    /\ remote \in [NodeIds -> Chains]
    /\ \A i \in NodeIds \ {1} : remote[i] = remote[1]
    /\ remote[1].seed = 0
    /\ nodes = [i \in NodeIds |-> NewRPCNode]
    /\ now = 0
    /\ reorgs = 0
    /\ faults = 0
    /\ last = NoCall
    /\ remoteBad = [i \in NodeIds |-> <<>>]
    /\ mon = NewMonitor
    /\ round = NoRound
    /\ refresh = NoRefresh
    /\ life = NoLife
    /\ checks = NoChecks
    /\ scan = NoScan

\* The remote appends a block to its chain.
RemoteAdvance ==
    /\ remote[1].head < MaxHeight
    /\ remote' = [remote EXCEPT ![1].head = @ + 1]
    /\ UNCHANGED <<nodes, now, reorgs, faults, last, monvars, sysvars>>

\* The remote switches to another branch: some of its blocks are replaced.
RemoteReorg ==
    /\ reorgs < MaxReorgs
    /\ \E c \in Chains :
         /\ <<c.fork, c.seed>> # <<remote[1].fork, remote[1].seed>>
         /\ remote' = [remote EXCEPT ![1] = c]
    /\ reorgs' = reorgs + 1
    /\ UNCHANGED <<nodes, now, faults, last, monvars, sysvars>>

\* The faults the remote may still show.
FaultsLeft == IF faults < MaxFaults THEN Faults ELSE {NoFault}

CountFault(fault) ==
    faults' = IF fault = NoFault THEN faults ELSE faults + 1

\* The tokens a call takes from node.throttle for its header requests:
\* throttledGetHeader takes one before each.
Take(req) == Len(req)

\* The call was answered with a header of another number than requested.
Wrong(c, fault) == fault.ans # -1 /\ fault.ans <= c.head

CallUpdateLatest ==
    \E fault \in FaultsLeft :
      \E r \in {UpdateLatest(remote[1], nodes[1], fault, now + 1)} :
        /\ now < MaxTime
        /\ now' = now + 1
        /\ FaultOf(fault, r.req)
        /\ CountFault(fault)
        /\ nodes' = [nodes EXCEPT ![1] = r.node]
        /\ last' = [NoCall EXCEPT !.op = "UpdateLatest", !.num = Latest,
                                  !.wrong = Wrong(remote[1], fault),
                                  !.err = r.err, !.bl = r.bl,
                                  !.nreq = Len(r.req),
                                  !.tokens = Take(r.req), !.req = r.req]
        /\ UNCHANGED <<remote, reorgs, monvars, sysvars>>

CallBlockAt ==
    \E num \in Heights, force \in BOOLEAN, fault \in FaultsLeft :
      \E r \in {BlockAt(remote[1], nodes[1], num, force, fault)} :
        /\ FaultOf(fault, r.req)
        /\ CountFault(fault)
        /\ nodes' = [nodes EXCEPT ![1] = r.node]
        /\ last' = [NoCall EXCEPT !.op = "BlockAt", !.num = num,
                                  !.force = force, !.wrong = Wrong(remote[1], fault),
                                  !.bl = r.bl, !.nreq = Len(r.req),
                                  !.tokens = Take(r.req), !.req = r.req]
        /\ UNCHANGED <<remote, now, reorgs, monvars, sysvars>>

CallHashAt ==
    \E num \in Heights, force \in BOOLEAN, fault \in FaultsLeft :
      \E r \in {HashAt(remote[1], nodes[1], num, force, fault)} :
        /\ FaultOf(fault, r.req)
        /\ CountFault(fault)
        /\ nodes' = [nodes EXCEPT ![1] = r.node]
        /\ last' = [NoCall EXCEPT !.op = "HashAt", !.num = num,
                                  !.force = force, !.wrong = Wrong(remote[1], fault),
                                  !.hash = r.hash, !.nreq = Len(r.req),
                                  !.tokens = Take(r.req), !.req = r.req]
        /\ UNCHANGED <<remote, now, reorgs, monvars, sysvars>>

NodeNext ==
    \/ RemoteAdvance
    \/ RemoteReorg
    \/ CallUpdateLatest
    \/ CallBlockAt
    \/ CallHashAt

NodeSpec == NodeInit /\ [][NodeNext]_vars

\* ------------------------------------------- one RemoteNode's outbound calls
\* RemoteNode.Version at the given time, the endpoint answering ans
\* (NoVersion: the call fails): within thirty seconds of the last request
\* node.version, and no request; else lastCheck is set, a token is taken and
\* the endpoint is asked.
Version(node, ans, time) ==
    IF time - node.lastCheck < VersionTTL
    THEN [node |-> node, ver |-> node.version, err |-> FALSE,
          nreq |-> 0, tokens |-> 0]
    ELSE [node |-> [node EXCEPT !.lastCheck = time,
                                !.version = IF ans = NoVersion THEN @ ELSE ans],
          ver |-> ans, err |-> ans = NoVersion, nreq |-> 1, tokens |-> 1]

CallVersion ==
    \E ans \in Versions \cup {NoVersion} :
      \E r \in {Version(nodes[1], ans, now)} :
        /\ (r.nreq = 0) => ans = NoVersion
        /\ nodes' = [nodes EXCEPT ![1] = r.node]
        /\ last' = [NoCall EXCEPT !.op = "Version", !.err = r.err,
                                  !.ver = r.ver, !.nreq = r.nreq,
                                  !.tokens = r.tokens]
        /\ UNCHANGED <<remote, now, reorgs, faults, monvars, sysvars>>

\* RemoteNode.BadBlocks, the endpoint reachable or not: GetBadBlocks is
\* called, and node.throttle is not touched.
CallBadBlocks ==
    \E up \in {NodeIds, NodeIds \ {1}} :
      \E r \in {BadBlocks(startRound(remote, nodes, up), remoteBad, 1)} :
        /\ nodes' = [nodes EXCEPT ![1] = r.st.ns[1]]
        /\ last' = [NoCall EXCEPT !.op = "BadBlocks", !.err = 1 \notin up,
                                  !.nreq = r.st.nreq[1], !.tokens = 0]
        /\ UNCHANGED <<remote, now, reorgs, faults, monvars, sysvars>>

ThrottleNext ==
    \/ RemoteAdvance
    \/ CallUpdateLatest
    \/ CallBlockAt
    \/ CallHashAt
    \/ CallVersion
    \/ CallBadBlocks

ThrottleSpec == NodeInit /\ [][ThrottleNext]_vars

\* ------------------------------------------------- claims on one RemoteNode
chainHistory == nodes[1].chainHistory
latest == nodes[1].latest

\* C2: whenever chainHistory holds entries at both n and n+1, the parentHash
\* of the entry at n+1 equals the hash of the entry at n.
C2_ParentChained ==
    \A n \in DOMAIN chainHistory :
        (n + 1) \in DOMAIN chainHistory =>
            chainHistory[n + 1].pHash = chainHistory[n].hash

\* C3: a call whose request is answered with a header of another number
\* leaves chainHistory exactly as it was before the call.
C3_MismatchNotCached ==
    [][ (last' # last /\ last'.wrong /\ last'.nreq = 1)
            => nodes'[1].chainHistory = nodes[1].chainHistory ]_vars

\* C9: when latest is set, chainHistory has an entry at latest.num with the
\* hash and parentHash of latest.
C9_LatestInHistory ==
    latest # NoBlock =>
        /\ latest.num \in DOMAIN chainHistory
        /\ chainHistory[latest.num].hash = latest.hash
        /\ chainHistory[latest.num].pHash = latest.pHash

\* C10: every entry of chainHistory is filed under its own number, and a
\* block BlockAt(n) returns has number n.
C10_NumberIsKey ==
    /\ \A n \in DOMAIN chainHistory : chainHistory[n].num = n
    /\ (last.op = "BlockAt" /\ last.bl # NoBlock) => last.bl.num = last.num

\* C10's case: BlockAt asked for a number, the remote answered with the
\* header of another number, and that header is in chainHistory: filed under
\* its own number, and not returned.
C10_Witness ==
    /\ last.op = "BlockAt" /\ last.wrong /\ last.nreq = 1
    /\ last.bl = NoBlock
    /\ \E n \in DOMAIN chainHistory :
           n # last.num /\ chainHistory[n] = Header(remote[1], n)

\* C17: BlockAt for a number above the number of a known latest returns no
\* block and makes no request, forced or not.
C17_FutureBlockNotFetched ==
    (last.op = "BlockAt" /\ latest # NoBlock /\ last.num > latest.num) =>
        (last.bl = NoBlock /\ last.nreq = 0)

\* A forced BlockAt for a number above latest that the remote holds, and
\* one that is not forced, for a number chainHistory holds.
C17_Witness ==
    /\ last.op = "BlockAt"
    /\ latest # NoBlock
    /\ last.num > latest.num
    /\ last.bl = NoBlock
    /\ \/ last.force /\ last.num <= remote[1].head
       \/ ~last.force /\ last.num \in DOMAIN chainHistory

\* C18: a successful UpdateLatest whose head differs in hash from latest, or
\* that finds no latest, makes the head the latest, sets lastProgress to the
\* time of the call and the head gauge to the head's number; one whose head
\* has the hash of latest leaves the three as they were.
C18_ProgressIffNewHash ==
    [][ (now' # now /\ last'.op = "UpdateLatest" /\ ~last'.err) =>
          IF latest = NoBlock \/ latest.hash # last'.bl.hash
          THEN /\ nodes'[1].latest = last'.bl
               /\ nodes'[1].latest # latest
               /\ nodes'[1].lastProgress = now'
               /\ nodes'[1].lastProgress # nodes[1].lastProgress
               /\ nodes'[1].headGauge = last'.bl.num
          ELSE /\ nodes'[1].latest = latest
               /\ nodes'[1].lastProgress = nodes[1].lastProgress
               /\ nodes'[1].headGauge = nodes[1].headGauge ]_vars

\* A successful UpdateLatest found the head it knew, after one that had
\* found a new head.
C18_Witness ==
    /\ last.op = "UpdateLatest"
    /\ ~last.err
    /\ last.bl = latest
    /\ nodes[1].lastProgress >= 1
    /\ nodes[1].lastProgress < now

\* A step of NodeSpec that is a HashAt call that was not forced.
HashAtStep ==
    /\ last'.op = "HashAt"
    /\ ~last'.force
    /\ remote' = remote
    /\ now' = now

\* What HashAt(num, false) answers from chainHistory ch: no request, the
\* hash of the entry at num, else the parent hash of the entry at num + 1;
\* and the zero hash when neither is there and the remote has no such block.
FromCache(ch, num) ==
    /\ (num \in DOMAIN ch \/ (num + 1) \in DOMAIN ch) =>
         /\ last'.nreq = 0
         /\ last'.hash = IF num \in DOMAIN ch THEN ch[num].hash
                         ELSE ch[num + 1].pHash
    /\ (num \notin DOMAIN ch /\ (num + 1) \notin DOMAIN ch
          /\ num > remote[1].head) => last'.hash = ZeroHash

\* C19 as stated: HashAt(n, false) makes no request when chainHistory holds
\* an entry at n or at n + 1, and returns the hash of the entry at n, else
\* the parent hash of the entry at n + 1; it returns the zero hash for a
\* height that is not available.
C19_CacheHitAnswers ==
    [][ HashAtStep => FromCache(chainHistory, last'.num) ]_vars

\* C19, but for the heights above a known latest: there HashAt(n, false)
\* returns the zero hash without a request, whatever chainHistory holds.
C19_CacheHitAnswersUpToLatest ==
    [][ HashAtStep =>
          IF latest # NoBlock /\ last'.num > latest.num
          THEN last'.hash = ZeroHash /\ last'.nreq = 0
          ELSE FromCache(chainHistory, last'.num) ]_vars

\* HashAt answered from the child's parent hash.
C19_Witness ==
    /\ last.op = "HashAt"
    /\ ~last.force
    /\ last.nreq = 0
    /\ last.num \notin DOMAIN chainHistory
    /\ (last.num + 1) \in DOMAIN chainHistory
    /\ last.hash = chainHistory[last.num + 1].pHash
    /\ last.hash # ZeroHash

\* The call made a request and the fetch of the height asked for succeeded.
Fetched(l) ==
    /\ l.nreq >= 1
    /\ \/ l.op = "UpdateLatest" /\ ~l.err
       \/ l.op = "BlockAt" /\ l.bl # NoBlock
       \/ l.op = "HashAt" /\ l.hash # ZeroHash

\* The height the call fetched.
FetchedHeight(l) == IF l.op = "UpdateLatest" THEN l.bl.num ELSE l.num

\* Below n, as far down as ch holds every height, each entry chains to the
\* entry under it.
ChainedBelow(ch, n) ==
    \A k \in 0..(n - 1) :
        (k..n) \subseteq DOMAIN ch =>
            \A m \in (k + 1)..n : ch[m].pHash = ch[m - 1].hash

\* C28: after a call that fetched height n with every request of the call
\* answered, chainHistory is chained from n down as far as it holds every
\* height.
C28_FetchRepairsBelow ==
    [][ (remote' = remote /\ faults' = faults /\ Fetched(last'))
            => ChainedBelow(nodes'[1].chainHistory, FetchedHeight(last')) ]_vars

\* ------------------------------------------------------ the monitor's runs
\* NewMonitor over fresh nodes, before the doChecks it ends with: the
\* endpoints serve any chains, the one of node 1 the canonical chain, and
\* list no bad blocks.
Init ==
    /\ remote \in [NodeIds -> Chains]
    /\ remote[1].seed = 0
    /\ nodes = [i \in NodeIds |-> NewRPCNode]
    /\ now = 0
    /\ reorgs = 0
    /\ faults = 0
    /\ last = NoCall
    /\ remoteBad = [i \in NodeIds |-> <<>>]
    /\ mon = NewMonitor
    /\ round = NoRound
    /\ refresh = NoRefresh
    /\ life = NoLife
    /\ checks = NoChecks
    /\ scan = NoScan

\* The remotes change between two rounds of a running monitor.
MayChange ==
    /\ ~mon.panicked
    /\ round.n >= 1
    /\ round.n < MaxRounds
    /\ round.changes < MaxChanges

Changed == round' = [round EXCEPT !.changes = @ + 1, !.changed = TRUE]
\* The endpoint of node i appends a block to its chain.
FleetAdvance ==
    \E i \in NodeIds :
      /\ MayChange
      /\ remote[i].head < MaxHeight
      /\ remote' = [remote EXCEPT ![i].head = @ + 1]
      /\ Changed
      /\ UNCHANGED <<nodes, now, reorgs, faults, last, remoteBad, mon, sysvars>>

\* The endpoint of node i switches to another branch.
FleetReorg ==
    \E i \in NodeIds, c \in Chains :
      /\ MayChange
      /\ reorgs < MaxReorgs
      /\ <<c.fork, c.seed>> # <<remote[i].fork, remote[i].seed>>
      /\ remote' = [remote EXCEPT ![i] = c]
      /\ reorgs' = reorgs + 1
      /\ Changed
      /\ UNCHANGED <<nodes, now, faults, last, remoteBad, mon, sysvars>>

\* The sets of endpoints reachable during a round.
UpSets == { S \in SUBSET NodeIds : Cardinality(NodeIds \ S) <= MaxDown }

\* The bookkeeping of a round that ended with res, the endpoints in up
\* reachable and gauge published as the split size; before are the nodes as
\* the round found them.
RoundAfter(res, before, up, gauge) ==
    [n |-> round.n + 1, up |-> up,
     activeNodes |-> res.activeNodes, calls |-> res.calls,
     pairs |-> res.pairs,
     asked |-> res.st.asked, fetched |-> res.st.fetched,
     changes |-> round.changes, changed |-> FALSE,
     quiet |-> /\ round.n >= 1
               /\ ~round.changed
               /\ \A i \in NodeIds :
                    HeadNum(res.st.ns[i]) = HeadNum(before[i]),
     newAsked |-> \E i \in NodeIds :
                    ~(res.st.asked[i] \subseteq round.asked[i]),
     newFetched |-> \E i \in NodeIds :
                      ~(res.st.fetched[i] \subseteq round.fetched[i]),
     failed |-> res.failed, late |-> res.late,
     back |-> round.failed \ res.failed,
     kept |-> { i \in NodeIds :
                  /\ res.st.ns[i].chainHistory = before[i].chainHistory
                  /\ res.st.ns[i].latest = before[i].latest
                  /\ res.st.ns[i].lastProgress = before[i].lastProgress },
     refetched |-> [i \in NodeIds |->
                      res.st.byNum[i] \cap DOMAIN before[i].chainHistory],
     direct |-> [i \in NodeIds |->
                   res.st.direct[i] \cap DOMAIN before[i].chainHistory],
     gauge |-> gauge,
     heads |-> res.heads, splitSize |-> res.splitSize, every |-> res.every]

\* One doChecks round with the endpoints in up reachable: NewMonitor's (the
\* first), or the loop's, dt seconds after the round before.
DoChecks(up, dt) ==
    /\ ~mon.panicked
    /\ round.n < MaxRounds
    /\ \E time \in {IF round.n = 0 THEN now ELSE now + dt} :
         \E res \in {doChecks(mon, remote, nodes, remoteBad, up, time)} :
           \E gauge \in splitSizes(res.calls, res.splitSize) :
             /\ now' = time
             /\ mon' = res.m
             /\ nodes' = res.st.ns
             /\ round' = RoundAfter(res, nodes, up, gauge)
    /\ faults' = IF up = NodeIds THEN faults ELSE faults + 1
    /\ UNCHANGED <<remote, reorgs, last, remoteBad>>

Round ==
    \E up \in UpSets :
      /\ up # NodeIds => faults < MaxFaults
      /\ DoChecks(up, DefaultReload)
      /\ UNCHANGED sysvars

Next ==
    \/ FleetAdvance
    \/ FleetReorg
    \/ Round

Spec == Init /\ [][Next]_vars

\* ----------------------------------------- the monitor's runs, bad blocks
\* NewMonitor over fresh nodes whose endpoints all serve the canonical chain
\* at height 0; their lists of bad blocks change, and the rounds are a
\* reload interval or a minute apart.
BadInit ==
    /\ remote = [i \in NodeIds |-> [head |-> 0, fork |-> 0, seed |-> 0]]
    /\ nodes = [i \in NodeIds |-> NewRPCNode]
    /\ now = 0
    /\ reorgs = 0
    /\ faults = 0
    /\ last = NoCall
    /\ remoteBad = [i \in NodeIds |-> <<>>]
    /\ mon = NewMonitor
    /\ round = NoRound
    /\ refresh = NoRefresh
    /\ life = NoLife
    /\ checks = NoChecks
    /\ scan = NoScan

\* An entry of an endpoint's list: a hash, and the number its RLP decodes to
\* (one number per hash) or NilNumber.
BadArgs == { a \in [hash : 1..MaxBad, number : {NilNumber} \cup 1..MaxBad] :
               a.number \in {NilNumber, a.hash} }

\* The endpoints that come across bad blocks.
MaxBadNodes == 2

MayChangeBad ==
    /\ ~mon.panicked
    /\ round.n < MaxRounds
    /\ round.changes < MaxBadChanges

\* The endpoint of node i, one of the first MaxBadNodes, comes across a bad
\* block.
BadAppear ==
    \E i \in 1..MaxBadNodes, a \in BadArgs :
      /\ MayChangeBad
      /\ Len(remoteBad[i]) < MaxBadLen
      /\ remoteBad' = [remoteBad EXCEPT ![i] = Append(@, a)]
      /\ Changed
      /\ UNCHANGED <<remote, nodes, now, reorgs, faults, last, mon, sysvars>>

\* The endpoint of node i restarts and forgets its bad blocks.
BadForget ==
    \E i \in NodeIds :
      /\ MayChangeBad
      /\ remoteBad[i] # <<>>
      /\ remoteBad' = [remoteBad EXCEPT ![i] = <<>>]
      /\ Changed
      /\ UNCHANGED <<remote, nodes, now, reorgs, faults, last, mon, sysvars>>

BadRound ==
    \E up \in UpSets, dt \in {DefaultReload, Minute} :
      /\ up # NodeIds => faults < MaxFaults
      /\ DoChecks(up, dt)
      /\ UNCHANGED sysvars

BadNext ==
    \/ BadAppear
    \/ BadForget
    \/ BadRound

BadSpec == BadInit /\ [][BadNext]_vars

\* ------------------------------------- the monitor's runs, broken nodes
\* The monitor over nodes of which some are broken: their endpoints answer
\* no call, in any round.  The first round chooses them.
BrokenRound ==
    \E up \in UpSets :
      /\ up # NodeIds
      /\ round.n = 0 \/ up = round.up
      /\ DoChecks(up, DefaultReload)
      /\ UNCHANGED sysvars

BrokenNext ==
    \/ FleetAdvance
    \/ FleetReorg
    \/ BrokenRound

BrokenSpec == Init /\ [][BrokenNext]_vars

\* ------------------------------- the monitor's runs, goroutine by goroutine
\* doChecks with its head-refresh phase step by step: one goroutine per node
\* (UpdateLatest, SetStatus, the deferred send on doneCh) and the receive
\* loop of doChecks, in any interleaving.  The endpoints change between
\* rounds.

\* The receive loop has run len(mon.nodes) times, but for one.
allReportedButOne(r) ==
    Len(r.received) >= NumNodes - 1

\* The receive loop has run len(mon.nodes) times.
allReported(r) ==
    Len(r.received) = NumNodes

\* doChecks begins: doneCh is made and a goroutine started for every node.
BeginRefresh ==
    \E up \in UpSets :
      /\ refresh.phase = "idle"
      /\ ~mon.panicked
      /\ round.n < MaxRounds
      /\ up # NodeIds => faults < MaxFaults
      /\ refresh' = [NoRefresh EXCEPT
                       !.phase = "refresh", !.up = up,
                       !.time = IF round.n = 0 THEN now
                                ELSE now + DefaultReload,
                       !.before = nodes,
                       !.pc = [i \in NodeIds |-> "start"]]
      /\ now' = IF round.n = 0 THEN now ELSE now + DefaultReload
      /\ faults' = IF up = NodeIds THEN faults ELSE faults + 1
      /\ UNCHANGED <<remote, nodes, reorgs, last, monvars, life, checks, scan>>

\* The goroutine of node i calls UpdateLatest.
TaskUpdateLatest ==
    \E i \in NodeIds :
      /\ refresh.phase = "refresh"
      /\ refresh.pc[i] = "start"
      /\ \E r \in {UpdateLatest(remote[i], nodes[i],
                                IF i \in refresh.up THEN NoFault ELSE Down,
                                refresh.time)} :
           /\ nodes' = [nodes EXCEPT ![i] = r.node]
           /\ refresh' = [refresh EXCEPT !.pc[i] = "updated",
                                         !.err[i] = r.err,
                                         !.req[i] = r.req]
      /\ UNCHANGED <<remote, now, reorgs, faults, last, monvars, life, checks, scan>>

\* The goroutine of node i sets the node's status from the error.
TaskSetStatus ==
    \E i \in NodeIds :
      /\ refresh.phase = "refresh"
      /\ refresh.pc[i] = "updated"
      /\ nodes' = [nodes EXCEPT
                     ![i].status = IF refresh.err[i]
                                   THEN NodeStatusUnreachable
                                   ELSE NodeStatusOK]
      /\ refresh' = [refresh EXCEPT !.pc[i] = "status"]
      /\ UNCHANGED <<remote, now, reorgs, faults, last, monvars, life, checks, scan>>

\* The goroutine of node i sends the node on doneCh (unbuffered) and the
\* receive loop takes it: the node joins activeNodes unless its status is
\* unreachable.
Report ==
    \E i \in NodeIds :
      /\ refresh.phase = "refresh"
      /\ refresh.pc[i] = "status"
      /\ Len(refresh.received) < NumNodes
      /\ refresh' = [refresh EXCEPT
                       !.pc[i] = "done",
                       !.received = Append(@, i),
                       !.active = IF nodes[i].status = NodeStatusUnreachable
                                  THEN @ ELSE Append(@, i)]
      /\ UNCHANGED <<remote, nodes, now, reorgs, faults, last, monvars, life,
                     checks, scan>>

\* The round's record when the receive loop is left: what the goroutines
\* asked of the endpoints.
afterTasks(rem, ns, r) ==
    [startRound(rem, ns, r.up) EXCEPT
       !.fetched = [i \in NodeIds |-> Requested(rem[i], r.req[i])],
       !.nreq = [i \in NodeIds |-> Len(r.req[i])],
       !.byNum = [i \in NodeIds |-> ByNumber(r.req[i])]]

\* The receive loop is left: activeNodes is sorted, and the scan, the report
\* and the bad blocks follow.
Scan ==
    /\ refresh.phase = "refresh"
    /\ allReported(refresh)
    /\ \E res \in {afterRefresh(
                     mon, remoteBad, refresh.time,
                     afterTasks(remote, nodes, refresh),
                     SortByName({ refresh.active[k] :
                                    k \in 1..Len(refresh.active) }))} :
         \E gauge \in splitSizes(res.calls, res.splitSize) :
           /\ mon' = res.m
           /\ nodes' = res.st.ns
           /\ round' = RoundAfter(res, refresh.before, refresh.up, gauge)
    /\ refresh' = [refresh EXCEPT !.phase = "idle"]
    /\ UNCHANGED <<remote, now, reorgs, faults, last, remoteBad, life, checks, scan>>

RefreshNext ==
    \/ refresh.phase = "idle" /\ FleetAdvance
    \/ refresh.phase = "idle" /\ FleetReorg
    \/ BeginRefresh
    \/ TaskUpdateLatest
    \/ TaskSetStatus
    \/ Report
    \/ Scan

RefreshSpec == BadInit /\ [][RefreshNext]_vars

\* ------------------------------------------ the monitor's runs, Start/Stop
\* The life of a monitor as monitorLoop drives it: NewMonitor, Start, and a
\* Stop at any later time, with the loop goroutine step by step.  A round of
\* the loop is in progress from the timer's case of the select to the return
\* of doChecks.

\* wg.Wait returning whatever the counter.
wgDoneAlways(l) ==
    TRUE

\* wg.Wait returns: the WaitGroup's counter is zero.
wgDone(l) ==
    l.wg = 0

\* NewMonitor: its doChecks is the first round.
Construct ==
    \E up \in UpSets :
      /\ ~life.made
      /\ up # NodeIds => faults < MaxFaults
      /\ DoChecks(up, DefaultReload)
      /\ life' = [life EXCEPT !.made = TRUE]
      /\ UNCHANGED <<refresh, checks, scan>>

\* Start: wg.Add(1), then the loop goroutine.
Start ==
    /\ life.made
    /\ ~life.started
    /\ ~mon.panicked
    /\ life' = [life EXCEPT !.started = TRUE, !.wg = @ + 1,
                            !.loop = "select"]
    /\ UNCHANGED <<remote, nodes, now, reorgs, faults, last, monvars, refresh,
                   checks, scan>>

\* The select of the loop takes the case of time.After: a round begins.
LoopTick ==
    /\ life.loop = "select"
    /\ ~mon.panicked
    /\ round.n < MaxRounds
    /\ life' = [life EXCEPT !.loop = "round"]
    /\ UNCHANGED <<remote, nodes, now, reorgs, faults, last, monvars, refresh,
                   checks, scan>>

\* doChecks of the loop, to its return.
LoopRound ==
    \E up \in UpSets :
      /\ life.loop = "round"
      /\ up # NodeIds => faults < MaxFaults
      /\ DoChecks(up, DefaultReload)
      /\ life' = [life EXCEPT !.loop = "select"]
      /\ UNCHANGED <<refresh, checks, scan>>

\* The select of the loop takes the case of quitCh: the loop returns, and
\* the deferred wg.Done runs.
LoopQuit ==
    /\ life.loop = "select"
    /\ life.quit
    /\ ~mon.panicked
    /\ life' = [life EXCEPT !.loop = "done", !.wg = @ - 1]
    /\ UNCHANGED <<remote, nodes, now, reorgs, faults, last, monvars, refresh,
                   checks, scan>>

\* Stop: close(mon.quitCh).
StopClose ==
    /\ life.started
    /\ life.stop = "none"
    /\ ~mon.panicked
    /\ life' = [life EXCEPT !.quit = TRUE, !.stop = "closed",
                            !.closedIn = life.loop]
    /\ UNCHANGED <<remote, nodes, now, reorgs, faults, last, monvars, refresh,
                   checks, scan>>

\* Stop: mon.wg.Wait() returns.
StopWait ==
    /\ life.stop = "closed"
    /\ wgDone(life)
    /\ ~mon.panicked
    /\ life' = [life EXCEPT !.stop = "waited"]
    /\ UNCHANGED <<remote, nodes, now, reorgs, faults, last, monvars, refresh,
                   checks, scan>>

\* Stop: mon.backend.db.Close(), and the return.
StopCloseDb ==
    /\ life.stop = "waited"
    /\ ~mon.panicked
    /\ life' = [life EXCEPT !.dbClosed = TRUE, !.stop = "returned"]
    /\ UNCHANGED <<remote, nodes, now, reorgs, faults, last, monvars, refresh,
                   checks, scan>>

StopNext ==
    \/ FleetAdvance
    \/ FleetReorg
    \/ Construct
    \/ Start
    \/ LoopTick
    \/ LoopRound
    \/ LoopQuit
    \/ StopClose
    \/ StopWait
    \/ StopCloseDb

StopSpec == BadInit /\ [][StopNext]_vars

\* ------------------------------------------- monitorLoop's runs
\* monitorLoop: a monitor is made and started; a change of the
\* configuration file stops it and the loop makes the next, an interrupt
\* stops it and the loop returns.
MaxMonitors == 2

\* monitorLoop breaks out of its inner loop without mon.Stop() having
\* returned.
stoppedOrNot(l) ==
    TRUE

\* mon.Stop() has returned, and monitorLoop breaks out of its inner loop.
stopped(l) ==
    l.stop = "returned"

\* The inner loop finds the size or the modification time of the
\* configuration file changed: s.Shutdown, then mon.Stop() begins.
ConfigChanged ==
    /\ life.started
    /\ life.stop = "none"
    /\ ~mon.panicked
    /\ life' = [life EXCEPT !.quit = TRUE, !.stop = "closed",
                            !.closedIn = life.loop, !.why = "restart"]
    /\ UNCHANGED <<remote, nodes, now, reorgs, faults, last, monvars, refresh,
                   checks, scan>>

\* The inner loop receives from quitCh (an interrupt): mon.Stop() begins.
Interrupt ==
    /\ life.started
    /\ life.stop = "none"
    /\ ~mon.panicked
    /\ life' = [life EXCEPT !.quit = TRUE, !.stop = "closed",
                            !.closedIn = life.loop, !.why = "exit"]
    /\ UNCHANGED <<remote, nodes, now, reorgs, faults, last, monvars, refresh,
                   checks, scan>>

\* After the break: the outer loop reads the configuration and spinupMonitor
\* opens a database and makes new nodes for the next monitor, whose
\* NewMonitor follows.
Respawn ==
    /\ life.why = "restart"
    /\ stopped(life)
    /\ ~mon.panicked
    /\ life.gen < MaxMonitors
    /\ life' = [NoLife EXCEPT
                  !.gen = life.gen + 1,
                  !.replaced = life.replaced
                               \cup {[gen |-> life.gen, loop |-> life.loop,
                                      dbClosed |-> life.dbClosed,
                                      closedIn |-> life.closedIn]}]
    /\ nodes' = [i \in NodeIds |-> NewRPCNode]
    /\ mon' = NewMonitor
    /\ round' = NoRound
    /\ UNCHANGED <<remote, now, reorgs, faults, last, remoteBad, refresh,
                   checks, scan>>

SuperNext ==
    \/ FleetAdvance
    \/ FleetReorg
    \/ Construct
    \/ Start
    \/ LoopTick
    \/ LoopRound
    \/ LoopQuit
    \/ ConfigChanged
    \/ Interrupt
    \/ StopWait
    \/ StopCloseDb
    \/ Respawn

SuperSpec == BadInit /\ [][SuperNext]_vars

\* ------------------------------------------------ checkNode's runs
\* checkNode called for nodes of any version, with the catalogue's url
\* answering anything: in the round of the call before, or a reload
\* interval or ten minutes and more after it.
CallCheckNode ==
    /\ checks.n < MaxChecks
    /\ \E answer \in Answers, version \in Versions \cup {NoVersion},
          dt \in {0, DefaultReload, CheckTTL + 1} :
      \E r \in {checkNode(checks, answer, version, now + dt)} :
        /\ now' = now + dt
        /\ checks' = [r.c EXCEPT
                        !.n = @ + 1,
                        !.call = [answer |-> answer, version |-> version,
                                  before |-> checks.checkCache,
                                  fetched |-> fetches(checks, now + dt),
                                  v |-> r.v, err |-> r.err,
                                  since |-> IF checks.lastFetch = NoFetch
                                            THEN NoFetch
                                            ELSE now + dt - checks.lastFetch],
                        !.lastFetch = IF fetches(checks, now + dt)
                                      THEN now + dt ELSE @]
        /\ UNCHANGED <<remote, nodes, reorgs, faults, last, monvars, refresh,
                       life, scan>>

VulnNext ==
    \/ CallCheckNode

VulnSpec == BadInit /\ [][VulnNext]_vars

\* ------------------------------------------------ addBadBlocks' runs
\* Report.addBadBlocks on maps of bad blocks of up to MaxEntries entries.
MaxEntries == 22

\* A badBlocks map of n entries, of hashes 1..n.  The Number of an entry is
\* its hash ("up"), falls with the hash ("down") or is 1 ("one"); the entry
\* of hash p, if any, has the Number q instead.
badBlocksOf(n, kind, p, q) ==
    [h \in 1..n |->
       [Clients |-> <<1>>, Hash |-> h,
        Number |-> IF h = p THEN q
                   ELSE IF kind = "up" THEN h
                   ELSE IF kind = "down" THEN n + 1 - h
                   ELSE 1]]

BadMaps ==
    { badBlocksOf(n, kind, p, q) :
        n \in 0..MaxEntries, kind \in {"up", "down", "one"},
        p \in 0..MaxEntries, q \in {NilNumber, 1, MaxEntries} }

ListInit ==
    /\ remote = [i \in NodeIds |-> [head |-> 0, fork |-> 0, seed |-> 0]]
    /\ nodes = [i \in NodeIds |-> NewRPCNode]
    /\ now = 0
    /\ reorgs = 0
    /\ faults = 0
    /\ last = NoCall
    /\ remoteBad = [i \in NodeIds |-> <<>>]
    /\ mon \in { [NewMonitor EXCEPT !.badBlocks = m] : m \in BadMaps }
    /\ round = NoRound
    /\ refresh = NoRefresh
    /\ life = NoLife
    /\ checks = NoChecks
    /\ scan = NoScan

\* r.addBadBlocks(mon.badBlocks) on a new report, as doChecks calls it.
AttachBadBlocks ==
    /\ round.n = 0
    /\ \E ab \in {addBadBlocks(NoReport, mon.badBlocks)} :
         mon' = IF ab.panic THEN [mon EXCEPT !.panicked = TRUE]
                ELSE [mon EXCEPT !.lastReport = ab.r]
    /\ round' = [round EXCEPT !.n = 1]
    /\ UNCHANGED <<remote, nodes, now, reorgs, faults, last, remoteBad,
                   sysvars>>

ListNext ==
    \/ AttachBadBlocks

ListSpec == ListInit /\ [][ListNext]_vars

\* ------------------------------------------- forPairs' workers, call by call
\* The workers of forPairs take pairs from the channel and run the closure of
\* findSplits on them.  The closure's calls on the two nodes of its pair,
\* BlockAt at highest and HashAt at the heights up to highest (not forced),
\* in any order and at most MaxCalls of them, are taken step by step: the
\* call blocks in mu.Lock, looks the height up in chainHistory, and where it
\* has to fetch, each request to the endpoint is in flight from its step
\* "request" or "refetch" to the answer; "check" is the test of
\* fetchHeader's loop.

\* The endpoints during the scan: node 1 on the branch of seed 1 forked at
\* height 0, at MaxHeight; the others on the canonical chain, node 2 at
\* MaxHeight and each further node a block lower.
ScanChains ==
    [i \in NodeIds |->
       IF i = 1 THEN [head |-> MaxHeight, fork |-> 0, seed |-> 1]
       ELSE [head |-> IF i - 2 < MaxHeight THEN MaxHeight + 2 - i ELSE 0,
             fork |-> 0, seed |-> 0]]

\* A pair scan begins after the UpdateLatest of its round.  The endpoint of
\* node 1 served another chain in the round before, when the node had its
\* UpdateLatest as well.
LockInit ==
    /\ remote = ScanChains
    /\ \E earlier \in Chains :
         nodes = [i \in NodeIds |->
                    UpdateLatest(
                      remote[i],
                      UpdateLatest(IF i = 1 THEN earlier ELSE remote[i],
                                   NewRPCNode, NoFault, 0).node,
                      NoFault, DefaultReload).node]
    /\ now = DefaultReload
    /\ reorgs = 0
    /\ faults = 0
    /\ last = NoCall
    /\ remoteBad = [i \in NodeIds |-> <<>>]
    /\ mon = NewMonitor
    /\ round = NoRound
    /\ refresh = NoRefresh
    /\ life = NoLife
    /\ checks = NoChecks
    /\ scan = NoScan

\* The pairs of a double loop whose inner index starts at the outer one.
RECURSIVE pairsFromSelf(_, _, _)
pairsFromSelf(list, i, j) ==
    IF i > Len(list) THEN <<>>
    ELSE IF j > Len(list) THEN pairsFromSelf(list, i + 1, i + 1)
    ELSE <<<<list[i], list[j]>>>> \o pairsFromSelf(list, i, j + 1)

\* The pairs forPairs sends on its channel, in their order.
RECURSIVE pairsFrom(_, _, _)
pairsFrom(list, i, j) ==
    IF i > Len(list) THEN <<>>
    ELSE IF j > Len(list) THEN pairsFrom(list, i + 1, i + 2)
    ELSE <<<<list[i], list[j]>>>> \o pairsFrom(list, i, j + 1)

\* A mutex that lets every caller in.
lockFreeAlways(mu, i) ==
    TRUE

\* mu.Lock() of node i returns only while no one holds mu.
lockFree(mu, i) ==
    mu[i] = 0

\* findSplits(activeNodes) up to the start of forPairs' workers: heads holds
\* the head numbers of the active nodes, the pairs to send are those of
\* distinctNodes.
ForPairsOf(activeNodes) ==
    /\ scan = NoScan
    /\ \E seeded \in {seedHeads([st |-> startRound(remote, nodes, NodeIds),
                                  heads |-> {}, seen |-> {},
                                  distinctNodes |-> <<>>, splitSize |-> 0,
                                  calls |-> {}, pairs |-> {},
                                  panic |-> FALSE],
                                 activeNodes, 1)} :
         /\ ~seeded.panic
         /\ scan' = [NoScan EXCEPT
                       !.pairs = pairsFrom(seeded.distinctNodes, 1, 2),
                       !.w = [k \in Workers |->
                                [NoWorker EXCEPT !.pc = "idle"]],
                       !.heads = seeded.heads,
                       !.elems = seeded.distinctNodes,
                       !.start = nodes]
    /\ UNCHANGED <<remote, nodes, now, reorgs, faults, last, monvars, life,
                   checks>>

\* The scan of a round in which every node is active.
ForPairs ==
    /\ ForPairsOf(SortByName(NodeIds))
    /\ UNCHANGED refresh

\* A worker receives the next pair and enters the closure.
Receive(k) ==
    /\ scan.w[k].pc = "idle"
    /\ scan.pairs # <<>>
    /\ scan' = [scan EXCEPT !.pairs = Tail(@),
                            !.sent = Append(@, <<k, Head(scan.pairs)>>),
                            !.w[k] = [NoWorker EXCEPT !.pc = "closure",
                                                      !.pair = Head(scan.pairs),
                                                      !.left = MaxCalls]]
    /\ UNCHANGED <<remote, nodes, now, reorgs, faults, last, monvars, refresh,
                   life, checks>>

\* The closure calls BlockAt or HashAt of a node of its pair: the call
\* blocks in mu.Lock().
Call(k) ==
    /\ scan.w[k].pc = "closure"
    /\ scan.w[k].left > 0
    /\ \E i \in {scan.w[k].pair[1], scan.w[k].pair[2]},
          op \in {"BlockAt", "HashAt"}, num \in Heights :
         /\ num <= highestOf([ns |-> nodes], scan.w[k].pair[1],
                             scan.w[k].pair[2])
         /\ op = "BlockAt" =>
              num = highestOf([ns |-> nodes], scan.w[k].pair[1],
                              scan.w[k].pair[2])
         /\ scan' = [scan EXCEPT !.w[k].pc = "waiting", !.w[k].node = i,
                                 !.w[k].op = op, !.w[k].num = num,
                                 !.w[k].left = @ - 1]
    /\ UNCHANGED <<remote, nodes, now, reorgs, faults, last, monvars, refresh,
                   life, checks>>

\* mu.Lock() returns.
Lock(k) ==
    /\ scan.w[k].pc = "waiting"
    /\ lockFree(scan.mu, scan.w[k].node)
    /\ scan' = [scan EXCEPT !.mu[scan.w[k].node] = k, !.w[k].pc = "locked"]
    /\ UNCHANGED <<remote, nodes, now, reorgs, faults, last, monvars, refresh,
                   life, checks>>

\* The call answers from latest and chainHistory without a request.
Answered(wk) ==
    IF wk.op = "BlockAt"
    THEN BlockAt(remote[wk.node], nodes[wk.node], wk.num, FALSE,
                 NoFault).req = <<>>
    ELSE HashAt(remote[wk.node], nodes[wk.node], wk.num, FALSE,
                NoFault).req = <<>>

\* The call looks at latest and chainHistory: it returns what they hold, or
\* goes on to fetchHeader, whose first request is then in flight.
Lookup(k) ==
    /\ scan.w[k].pc = "locked"
    /\ scan' = [scan EXCEPT !.w[k].pc = IF Answered(scan.w[k]) THEN "unlock"
                                        ELSE "request"]
    /\ UNCHANGED <<remote, nodes, now, reorgs, faults, last, monvars, refresh,
                   life, checks>>

\* The endpoint answers the request in flight: throttledGetHeader files the
\* header, or returns the error.
Respond(k) ==
    /\ scan.w[k].pc \in {"request", "refetch"}
    /\ \E r \in {throttledGetHeader(remote[scan.w[k].node],
                                     nodes[scan.w[k].node].chainHistory,
                                     scan.w[k].num, NoFault)} :
         /\ nodes' = [nodes EXCEPT ![scan.w[k].node].chainHistory = r.ch]
         /\ scan' = [scan EXCEPT
                       !.w[k].pc = IF r.err THEN "unlock" ELSE "check",
                       !.w[k].cur = r.bl]
    /\ UNCHANGED <<remote, now, reorgs, faults, last, monvars, refresh, life,
                   checks>>

\* The loop of fetchHeader: a cached parent that does not chain to the block
\* just fetched is deleted and its refetch is in flight.
Check(k) ==
    /\ scan.w[k].pc = "check"
    /\ \E ch \in {nodes[scan.w[k].node].chainHistory},
          cur \in {scan.w[k].cur} :
         IF \/ (cur.num - 1) \notin DOMAIN ch
            \/ ch[cur.num - 1].hash = cur.pHash
         THEN /\ scan' = [scan EXCEPT !.w[k].pc = "unlock"]
              /\ nodes' = nodes
         ELSE /\ nodes' = [nodes EXCEPT ![scan.w[k].node].chainHistory =
                                          Delete(ch, ch[cur.num - 1].num)]
              /\ scan' = [scan EXCEPT !.w[k].pc = "refetch",
                                      !.w[k].num = ch[cur.num - 1].num,
                                      !.w[k].repair = TRUE]
    /\ UNCHANGED <<remote, now, reorgs, faults, last, monvars, refresh, life,
                   checks>>

\* A call that returns to the closure with mu still held.
ReturnLocked(k) ==
    /\ scan.w[k].pc = "unlock"
    /\ scan' = [scan EXCEPT !.w[k] = [NoWorker EXCEPT
                                        !.pc = "closure",
                                        !.pair = scan.w[k].pair,
                                        !.left = scan.w[k].left]]
    /\ UNCHANGED <<remote, nodes, now, reorgs, faults, last, monvars, refresh,
                   life, checks>>

\* The deferred mu.Unlock(): the call returns to the closure.
Unlock(k) ==
    /\ scan.w[k].pc = "unlock"
    /\ scan' = [scan EXCEPT !.mu[scan.w[k].node] = 0,
                            !.w[k] = [NoWorker EXCEPT
                                        !.pc = "closure",
                                        !.pair = scan.w[k].pair,
                                        !.left = scan.w[k].left]]
    /\ UNCHANGED <<remote, nodes, now, reorgs, faults, last, monvars, refresh,
                   life, checks>>

\* The closure returns; the worker is back at the channel.
Return(k) ==
    /\ scan.w[k].pc = "closure"
    /\ scan' = [scan EXCEPT !.w[k] = [NoWorker EXCEPT !.pc = "idle"]]
    /\ UNCHANGED <<remote, nodes, now, reorgs, faults, last, monvars, refresh,
                   life, checks>>

\* Every pair was sent: forPairs closes the channel.
Close ==
    /\ scan # NoScan
    /\ scan.pairs = <<>>
    /\ ~scan.closed
    /\ scan' = [scan EXCEPT !.closed = TRUE]
    /\ UNCHANGED <<remote, nodes, now, reorgs, faults, last, monvars, refresh,
                   life, checks>>

\* The channel is closed and empty: the worker ends (wg.Done).
Exit(k) ==
    /\ scan.w[k].pc = "idle"
    /\ scan.closed
    /\ scan' = [scan EXCEPT !.w[k].pc = "done"]
    /\ UNCHANGED <<remote, nodes, now, reorgs, faults, last, monvars, refresh,
                   life, checks>>

\* wg.Wait() returns: forPairs is over.
Wait ==
    /\ \A k \in Workers : scan.w[k].pc = "done"
    /\ ~scan.over
    /\ scan' = [scan EXCEPT !.over = TRUE]
    /\ UNCHANGED <<remote, nodes, now, reorgs, faults, last, monvars, refresh,
                   life, checks>>

LockNext ==
    \/ ForPairs
    \/ \E k \in Workers : Receive(k)
    \/ \E k \in Workers : Call(k)
    \/ \E k \in Workers : Lock(k)
    \/ \E k \in Workers : Lookup(k)
    \/ \E k \in Workers : Respond(k)
    \/ \E k \in Workers : Check(k)
    \/ \E k \in Workers : Unlock(k)
    \/ \E k \in Workers : Return(k)
    \/ Close
    \/ \E k \in Workers : Exit(k)
    \/ Wait

LockSpec == LockInit /\ [][LockNext]_vars

\* ------------------------------------- a round, goroutine by goroutine
\* A doChecks from its head-refresh goroutines to the return of forPairs,
\* every goroutine scheduled again and again while it can take a step.
\* The nodes had an UpdateLatest before, node 1 when its endpoint served
\* the canonical chain at a lower head.
TermInit ==
    /\ remote = ScanChains
    /\ \E earlier \in { c \in Chains : c.seed = 0 /\ c.head < MaxHeight } :
         nodes = [i \in NodeIds |->
                    UpdateLatest(IF i = 1 THEN earlier ELSE remote[i],
                                 NewRPCNode, NoFault, 0).node]
    /\ now = DefaultReload
    /\ reorgs = 0
    /\ faults = 0
    /\ last = NoCall
    /\ remoteBad = [i \in NodeIds |-> <<>>]
    /\ mon = NewMonitor
    /\ round = NoRound
    /\ refresh = NoRefresh
    /\ life = NoLife
    /\ checks = NoChecks
    /\ scan = NoScan

\* The receive loop is left: the goroutines are over, activeNodes is sorted
\* and findSplits starts forPairs' workers.
ScanBegin ==
    /\ refresh.phase = "refresh"
    /\ allReported(refresh)
    /\ ForPairsOf(SortByName({ refresh.active[k] :
                                 k \in 1..Len(refresh.active) }))
    /\ refresh' = [NoRefresh EXCEPT !.phase = "scan", !.pc = refresh.pc]

\* The steps of the goroutine of doChecks, of the head-refresh goroutines
\* and of worker k.
MainStep == BeginRefresh \/ ScanBegin \/ Close \/ Wait
TaskStep ==
    TaskUpdateLatest \/ TaskSetStatus \/ Report
WorkerStep(k) ==
    \/ Receive(k)
    \/ Call(k)
    \/ Lock(k)
    \/ Lookup(k)
    \/ Respond(k)
    \/ Check(k)
    \/ Unlock(k)
    \/ Return(k)
    \/ Exit(k)

TermNext ==
    \/ MainStep
    \/ TaskStep
    \/ \E k \in Workers : WorkerStep(k)

TermSpec ==
    /\ TermInit
    /\ [][TermNext]_vars
    /\ WF_vars(MainStep)
    /\ WF_vars(TaskStep)
    /\ \A k \in Workers : WF_vars(WorkerStep(k))

\* ------------------------------------- findSplits' workers, pair by pair
\* The closure of findSplits taken as three parts: the calls on the two nodes
\* up to the result of findSplit, the wait for headMu, and the writes to
\* heads under it.  A write to the map is a read of it followed by the store
\* of the grown map.

\* A mutex that lets every caller in.
headFreeAlways(headMu) ==
    TRUE

\* headMu.Lock() returns only while no one holds headMu.
headFree(headMu) ==
    headMu = 0

\* The closure of worker k up to headMu.Lock(): it returns at once where a
\* block at highest is missing or the two blocks are the same, else it has
\* the split of findSplit.  splitSize is read and written outside headMu: a
\* splitLength above it is written, and one not above it may be written too
\* (the read was of an older value).
CrossCheck(k) ==
    /\ scan.w[k].pc = "closure"
    /\ \E r \in {crossCheck([st |-> startRound(remote, nodes, NodeIds),
                              heads |-> {}, seen |-> {},
                              distinctNodes |-> <<>>, splitSize |-> 0,
                              calls |-> {}, pairs |-> {}, panic |-> FALSE],
                             mon.forkHeightCache,
                             scan.w[k].pair[1], scan.w[k].pair[2])} :
         /\ nodes' = r.st.ns
         /\ IF r.calls = {}
            THEN scan' = [scan EXCEPT !.w[k] = [NoWorker EXCEPT !.pc = "idle"]]
            ELSE \E c \in r.calls :
                   \E size \in (IF c.highest - c.split > 0
                                THEN {c.highest - c.split} ELSE {})
                               \cup {IF scan.splitSize < c.highest - c.split
                                     THEN c.highest - c.split
                                     ELSE scan.splitSize} :
                     scan' = [scan EXCEPT !.w[k].pc = "headwait",
                                          !.w[k].split = c.split,
                                          !.found = @ \cup {c.split},
                                          !.splitSize = size]
    /\ UNCHANGED <<remote, now, reorgs, faults, last, monvars, refresh, life,
                   checks>>

\* headMu.Lock() returns.
HeadLock(k) ==
    /\ scan.w[k].pc = "headwait"
    /\ headFree(scan.headMu)
    /\ scan' = [scan EXCEPT !.headMu = k, !.w[k].pc = "headread"]
    /\ UNCHANGED <<remote, nodes, now, reorgs, faults, last, monvars, refresh,
                   life, checks>>

\* The map is read for the writes of heads[split] and heads[split-1].
HeadRead(k) ==
    /\ scan.w[k].pc = "headread"
    /\ scan' = [scan EXCEPT !.w[k].seen = scan.heads,
                            !.w[k].pc = "headwrite"]
    /\ UNCHANGED <<remote, nodes, now, reorgs, faults, last, monvars, refresh,
                   life, checks>>

\* The map with split, and split-1 where split > 0, is stored.
HeadWrite(k) ==
    /\ scan.w[k].pc = "headwrite"
    /\ scan' = [scan EXCEPT
                  !.heads = scan.w[k].seen \cup {scan.w[k].split}
                              \cup (IF scan.w[k].split > 0
                                    THEN {scan.w[k].split - 1} ELSE {}),
                  !.w[k].pc = "headunlock"]
    /\ UNCHANGED <<remote, nodes, now, reorgs, faults, last, monvars, refresh,
                   life, checks>>

\* The deferred headMu.Unlock(): the closure returns, the worker is back at
\* the channel.
HeadUnlock(k) ==
    /\ scan.w[k].pc = "headunlock"
    /\ scan' = [scan EXCEPT !.headMu = 0,
                            !.w[k] = [NoWorker EXCEPT !.pc = "idle"]]
    /\ UNCHANGED <<remote, nodes, now, reorgs, faults, last, monvars, refresh,
                   life, checks>>

PairNext ==
    \/ ForPairs
    \/ \E k \in Workers : Receive(k)
    \/ \E k \in Workers : CrossCheck(k)
    \/ \E k \in Workers : HeadLock(k)
    \/ \E k \in Workers : HeadRead(k)
    \/ \E k \in Workers : HeadWrite(k)
    \/ \E k \in Workers : HeadUnlock(k)
    \/ Close
    \/ \E k \in Workers : Exit(k)
    \/ Wait

PairSpec == LockInit /\ [][PairNext]_vars

\* ------------------------------------------- the pair scan of a later round
\* The fleet of the round before: node 1 and the others on the canonical
\* chain, node 1 a block behind the highest.
OrderFleet ==
    [i \in NodeIds |->
       [head |-> IF i = 1 THEN MaxHeight - 1 ELSE MaxHeight,
        fork |-> 0, seed |-> 0]]

\* A pair scan of the round after NewMonitor's: the endpoint of node 2 served
\* the chain earlier in NewMonitor's round and serves the chain later now;
\* the monitor is as that round left it and every node has had the
\* UpdateLatest of this round.
OrderInit ==
    /\ \E earlier \in Chains, later \in Chains :
         /\ remote = [OrderFleet EXCEPT ![2] = later]
         /\ \E first \in {doChecks(NewMonitor,
                                   [OrderFleet EXCEPT ![2] = earlier],
                                   [i \in NodeIds |-> NewRPCNode],
                                   [i \in NodeIds |-> <<>>], NodeIds, 0)} :
              /\ mon = first.m
              /\ nodes = [i \in NodeIds |->
                            UpdateLatest(remote[i], first.st.ns[i], NoFault,
                                         DefaultReload).node]
    /\ now = DefaultReload
    /\ reorgs = 0
    /\ faults = 0
    /\ last = NoCall
    /\ remoteBad = [i \in NodeIds |-> <<>>]
    /\ round = NoRound
    /\ refresh = NoRefresh
    /\ life = NoLife
    /\ checks = NoChecks
    /\ scan = NoScan

OrderSpec == OrderInit /\ [][PairNext]_vars

\* ------------------------------------------------- claims on the monitor
lastReport == mon.lastReport
forkHeightCache == mon.forkHeightCache

\* C1: every findSplit call of a round, made for two nodes whose hashes
\* differ at highest, returns a height in 0..highest at which the two nodes'
\* hashes differ and below which they do not: the smallest such height.
C1_SplitIsFirstDivergence ==
    \A c \in round.calls :
        /\ c.split \in 0..c.highest
        /\ c.split \in c.differs
        /\ c.split = 0 \/ (c.split - 1) \notin c.differs
        /\ \A h \in c.differs : c.split <= h

\* A round has ended, the remotes as they were during it.
AfterRound == round.n >= 1 /\ ~round.changed /\ ~mon.panicked

Range(seq) == { seq[k] : k \in 1..Len(seq) }
Min(a, b) == IF a < b THEN a ELSE b

\* The chains of nodes i and j differ at height h.
DifferAt(i, j, h) == hashFromSeed(remote[i], h) # hashFromSeed(remote[j], h)
Common(i, j) == Min(remote[i].head, remote[j].head)
Diverging(i, j) == DifferAt(i, j, Common(i, j))
FirstDivergence(i, j) ==
    CHOOSE h \in 0..Common(i, j) :
        /\ DifferAt(i, j, h)
        /\ \A g \in 0..(h - 1) : ~DifferAt(i, j, g)

\* The heights C5 names: the active nodes' heads, the first divergence of
\* every diverging pair of active nodes, and the height below it.
HeightsOfInterest ==
    { remote[i].head : i \in round.up }
    \cup { FirstDivergence(p[1], p[2]) :
             p \in { q \in round.up \X round.up : Diverging(q[1], q[2]) } }
    \cup { FirstDivergence(p[1], p[2]) - 1 :
             p \in { q \in round.up \X round.up :
                       /\ Diverging(q[1], q[2])
                       /\ FirstDivergence(q[1], q[2]) > 0 } }

\* C5: after every round the set of Report.Numbers is exactly the heads of
\* the active nodes, the first height at which two active nodes on diverging
\* chains diverge, and (when positive) that height minus one.
C5_NumbersExact ==
    AfterRound => Range(lastReport.Numbers) = HeightsOfInterest

\* C6: after every round Report.Numbers is strictly descending and contains
\* the head height of every node that was active in the round.
C6_NumbersDescendingWithHeads ==
    (round.n >= 1 /\ ~mon.panicked) =>
        /\ \A k \in 1..(Len(lastReport.Numbers) - 1) :
               lastReport.Numbers[k] > lastReport.Numbers[k + 1]
        /\ \A i \in Range(round.activeNodes) :
               HeadNum(nodes[i]) \in Range(lastReport.Numbers)

C6_Witness ==
    /\ round.n >= 2
    /\ ~mon.panicked
    /\ round.up # NodeIds
    /\ Len(lastReport.Numbers) >= 3
    /\ \E i, j \in Range(round.activeNodes) :
           HeadNum(nodes[i]) # HeadNum(nodes[j])
    /\ \A i \in Range(round.activeNodes) :
           HeadNum(nodes[i]) \in Range(lastReport.Numbers)

\* The values of the non-empty cells of Report.Rows.
CellHashes ==
    { lastReport.Rows[n][k] :
        n \in DOMAIN lastReport.Rows, k \in 1..NumNodes } \ {EmptyCell}

\* C7: after every round Report.Hashes holds no hash twice, and a hash is in
\* it exactly when it is the value of some non-empty cell of Report.Rows.
C7_HashesAreTheCells ==
    (round.n >= 1 /\ ~mon.panicked) =>
        /\ \A k, l \in 1..Len(lastReport.Hashes) :
               lastReport.Hashes[k] = lastReport.Hashes[l] => k = l
        /\ Range(lastReport.Hashes) = CellHashes

C7_Witness ==
    /\ round.n >= 1
    /\ ~mon.panicked
    /\ \E n \in DOMAIN lastReport.Rows :
         \E k, l \in 1..NumNodes :
           /\ k # l
           /\ lastReport.Rows[n][k] # EmptyCell
           /\ lastReport.Rows[n][k] = lastReport.Rows[n][l]
           /\ \E m \in 1..NumNodes : lastReport.Rows[n][m] = EmptyCell
    /\ Cardinality(Range(lastReport.Hashes)) = Len(lastReport.Hashes)
    /\ Len(lastReport.Hashes) >= 2

\* C4: a round before which no node's head or chain changed since the round
\* before it calls BlockAt or HashAt of no node with a height the round
\* before it did not call that node with.
C4_QuietRoundAsksNothingNew ==
    (round.quiet /\ ~mon.panicked) => ~round.newAsked

badBlocks == mon.badBlocks

IsPrefix(s, t) == Len(s) <= Len(t) /\ \A k \in 1..Len(s) : s[k] = t[k]

\* C8: a step removes no key of badBlocks and leaves the hash and the number
\* of every entry as recorded, its clients only appended to; and no entry
\* lists a node twice among its clients.
C8_BadBlocksOnlyGrow ==
    [][ /\ \A h \in DOMAIN mon.badBlocks :
             /\ h \in DOMAIN mon'.badBlocks
             /\ mon'.badBlocks[h].Hash = mon.badBlocks[h].Hash
             /\ mon'.badBlocks[h].Number = mon.badBlocks[h].Number
             /\ IsPrefix(mon.badBlocks[h].Clients, mon'.badBlocks[h].Clients)
        /\ \A h \in DOMAIN mon'.badBlocks :
             \A k, l \in 1..Len(mon'.badBlocks[h].Clients) :
               mon'.badBlocks[h].Clients[k] = mon'.badBlocks[h].Clients[l]
                 => k = l ]_vars

\* An entry recorded in an earlier sweep, reported again in a later one: by
\* the node that reported it first, twice in its list, and by another node
\* with another number.
C8_Witness ==
    /\ ~mon.panicked
    /\ mon.lastBadBlocks >= Minute
    /\ ~round.changed
    /\ round.up = NodeIds
    /\ \E h \in DOMAIN badBlocks :
         /\ Len(badBlocks[h].Clients) >= 2
         /\ \E k, l \in 1..Len(remoteBad[badBlocks[h].Clients[1]]) :
              /\ k # l
              /\ remoteBad[badBlocks[h].Clients[1]][k].hash = h
              /\ remoteBad[badBlocks[h].Clients[1]][l].hash = h
         /\ \E k \in 1..Len(remoteBad[badBlocks[h].Clients[2]]) :
              /\ remoteBad[badBlocks[h].Clients[2]][k].hash = h
              /\ remoteBad[badBlocks[h].Clients[2]][k].number
                   # badBlocks[h].Number

\* C11: a node whose UpdateLatest failed in a round is not called again in
\* that round: its endpoint gets no call from the pair scan, none from the
\* report's rows and none from the bad-block sweep.
C11_NoCallAfterFailedRefresh ==
    /\ round.late.scan = {}
    /\ round.late.report = {}
    /\ round.late.sweep = {}

\* The nodes whose endpoint answered no call in any round so far (in the
\* runs with broken nodes).
Broken == NodeIds \ round.up

\* C12: a node whose every call fails is, in each round's report, a column
\* of status NodeStatusUnreachable with an empty cell in every row, and in
\* no pair handed to the fork finder.
C12_BrokenNodeShownUnreachable ==
    (round.n >= 1 /\ ~mon.panicked) =>
        \A i \in Broken :
            /\ Len(lastReport.Cols) = NumNodes
            /\ lastReport.Cols[i].Name = i
            /\ lastReport.Cols[i].Status = NodeStatusUnreachable
            /\ DOMAIN lastReport.Rows = Range(lastReport.Numbers)
            /\ \A n \in DOMAIN lastReport.Rows :
                   /\ Len(lastReport.Rows[n]) = NumNodes
                   /\ lastReport.Rows[n][i] = EmptyCell
            /\ \A p \in round.pairs : p[1] # i /\ p[2] # i
            /\ \A c \in round.calls : c.a # i /\ c.b # i

\* A broken node in a later round whose report has several rows, the other
\* nodes in a pair that findSplit was called for.
C12_Witness ==
    /\ round.n >= 2
    /\ ~mon.panicked
    /\ Broken # {}
    /\ Len(lastReport.Numbers) >= 2
    /\ round.calls # {}
    /\ \A i \in Broken :
         \A n \in DOMAIN lastReport.Rows : lastReport.Rows[n][i] = EmptyCell

MaxOr0(S) == IF \E x \in S : x > 0
             THEN CHOOSE x \in S : \A y \in S : y <= x
             ELSE 0

\* C14: the value published to the chain/split gauge after a round's scan is
\* the largest highest - split over the pairs findSplit was called for, 0
\* when there is none, however the workers' closures interleave.
C14_GaugeIsLargestSplit ==
    (round.n >= 1 /\ ~mon.panicked) =>
        round.gauge = MaxOr0({ c.highest - c.split : c \in round.calls })

\* C15: the scan of a round starts when every node's goroutine has run to
\* its end, each node's status is the one its own UpdateLatest of this round
\* gave it, and the activeNodes of the scan are the nodes whose UpdateLatest
\* of this round succeeded.
C15_ScanAfterAllTasks ==
    (round.n >= 1 /\ refresh.phase = "idle") =>
        /\ \A i \in NodeIds : refresh.pc[i] = "done"
        /\ \A i \in NodeIds :
             nodes[i].status = IF refresh.err[i] THEN NodeStatusUnreachable
                               ELSE NodeStatusOK
        /\ Range(round.activeNodes) = { i \in NodeIds : ~refresh.err[i] }
        /\ Len(round.activeNodes) = Cardinality(Range(round.activeNodes))

\* A scan has started in a round in which a node that failed the round
\* before succeeded, its goroutine not the first to report.
C15_Witness ==
    /\ round.n >= 2
    /\ refresh.phase = "idle"
    /\ \E i \in round.back :
         /\ ~refresh.err[i]
         /\ i \in Range(round.activeNodes)
         /\ refresh.received[1] # i
    /\ Len(round.activeNodes) = NumNodes

\* C16: once wg.Wait of Stop has returned, no round is in progress and none
\* begins or ends any more; the backend's database is closed only when the
\* loop goroutine has returned, and no round runs after that.
C16_StopWaitsForTheRound ==
    /\ [](life.stop \in {"waited", "returned"} => life.loop = "done")
    /\ [](life.dbClosed => life.loop = "done")
    /\ [][life.stop = "returned" =>
            (round'.n = round.n /\ life'.loop = "done")]_vars
    /\ [][life.dbClosed =>
            (round'.n = round.n /\ mon' = mon /\ nodes' = nodes)]_vars

\* Stop has returned; it closed quitCh while a round of the loop was in
\* progress.
C16_Witness ==
    /\ life.stop = "returned"
    /\ life.dbClosed
    /\ life.closedIn = "round"
    /\ round.n >= 2

\* The last checkNode ran into a failing refresh of a catalogue loaded
\* before, for a node whose version is known.
RefreshFailed ==
    /\ checks.n >= 1
    /\ checks.call.fetched
    /\ fetchChecks(checks.call.answer).err
    /\ ~checks.call.before.nil
    /\ checks.call.version # NoVersion

\* C20: when the refresh of the catalogue fails, checkCache stays as it was
\* and checkNode returns the entries of it that match the node's version.
C20_StaleCatalogueStillUsed ==
    RefreshFailed =>
        /\ checks.checkCache = checks.call.before
        /\ checks.call.v.list
             = Matching(checks.call.before.list, checks.call.version)

\* C21: the first checkNode downloads the catalogue, and a later one
\* downloads it only when more than ten minutes have passed since the
\* download before; so the checks of one round download it once at most.
C21_DownloadEveryTenMinutes ==
    (checks.n >= 1 /\ checks.call.fetched) =>
        (checks.call.since = NoFetch \/ checks.call.since > CheckTTL)

\* The active nodes of the last round all have the same head.
Active == Range(round.activeNodes)
OneHead ==
    /\ round.n >= 1
    /\ ~mon.panicked
    /\ Active # {}
    /\ \A i, j \in Active : nodes[i].latest.hash = nodes[j].latest.hash

\* C22: when every active node of a round has the same head hash, no pair
\* is handed to findSplit, Report.Numbers is that head's height alone,
\* Report.Hashes is one hash, every cell of an active node is that hash and
\* the split gauge is 0.
C22_OneHeadOneRow ==
    OneHead =>
        \A i \in Active :
          /\ round.calls = {}
          /\ round.pairs = {}
          /\ lastReport.Numbers = <<nodes[i].latest.num>>
          /\ lastReport.Hashes = <<nodes[i].latest.hash>>
          /\ lastReport.Rows[nodes[i].latest.num][i] = nodes[i].latest.hash
          /\ round.gauge = 0

\* C22, but for Report.Hashes: it holds the one head hash and, besides, the
\* hashes in the row's cells of the nodes that are not active.
C22_OneHeadOneRowOfActive ==
    OneHead =>
        \A i \in Active :
          /\ round.calls = {}
          /\ round.pairs = {}
          /\ lastReport.Numbers = <<nodes[i].latest.num>>
          /\ lastReport.Rows[nodes[i].latest.num][i] = nodes[i].latest.hash
          /\ Range(lastReport.Hashes)
               = {nodes[i].latest.hash}
                 \cup ({ lastReport.Rows[nodes[i].latest.num][k] :
                           k \in NodeIds \ Active } \ {EmptyCell})
          /\ Len(lastReport.Hashes) = Cardinality(Range(lastReport.Hashes))
          /\ (Active = NodeIds => Len(lastReport.Hashes) = 1)
          /\ round.gauge = 0

\* Two active nodes with one head, and a node that is not active whose cell
\* in the row holds another hash.
C22_Witness ==
    /\ OneHead
    /\ Cardinality(Active) >= 2
    /\ Len(lastReport.Hashes) = 2
    /\ round.calls = {}

\* C23: after a round Report.BadBlocks has MaxShown entries at most, all of
\* the map when that has no more; they are entries of the map, each once,
\* by descending Number, and no entry left out has a higher Number than one
\* that is in.
C23_BadBlocksTopTwenty ==
    (round.n >= 1 /\ ~mon.panicked) =>
        /\ Len(lastReport.BadBlocks) <= MaxShown
        /\ Len(lastReport.BadBlocks)
             = Min(Cardinality(DOMAIN badBlocks), MaxShown)
        /\ Range(lastReport.BadBlocks) \subseteq DOMAIN badBlocks
        /\ Cardinality(Range(lastReport.BadBlocks))
             = Len(lastReport.BadBlocks)
        /\ \A k, l \in 1..Len(lastReport.BadBlocks) :
             k < l => badBlocks[lastReport.BadBlocks[k]].Number
                        >= badBlocks[lastReport.BadBlocks[l]].Number
        /\ \A h \in DOMAIN badBlocks \ Range(lastReport.BadBlocks) :
             \A g \in Range(lastReport.BadBlocks) :
               badBlocks[h].Number <= badBlocks[g].Number

\* A map of more than MaxShown entries: the report has MaxShown of them, of
\* several Numbers, and an entry left out has a higher hash than one kept.
C23_Witness ==
    /\ round.n >= 1
    /\ ~mon.panicked
    /\ Cardinality(DOMAIN badBlocks) > MaxShown
    /\ Len(lastReport.BadBlocks) = MaxShown
    /\ badBlocks[lastReport.BadBlocks[1]].Number
         > badBlocks[lastReport.BadBlocks[MaxShown]].Number
    /\ \E h \in DOMAIN badBlocks \ Range(lastReport.BadBlocks) :
         \E g \in Range(lastReport.BadBlocks) : h > g

Qualifies(c, h) ==
    /\ h \in c.differs
    /\ h = 0 \/ (h - 1) \notin c.differs

\* C25: a findSplit call with a non-empty forkHeightCache examines the cached
\* heights from the largest on: the first height it asks the nodes for is
\* the largest cached one, and it returns the largest cached height at which
\* the nodes disagree while agreeing one below, whenever there is one.
C25_ReplayLargestFirst ==
    \A c \in round.calls :
        Len(c.cache) > 0 =>
            /\ c.examined # <<>>
            /\ c.examined[1] = c.cache[1]
            /\ \A k \in 1..Len(c.cache) :
                   (Qualifies(c, c.cache[k])
                      /\ \A m \in 1..(k - 1) : ~Qualifies(c, c.cache[m]))
                   => c.split = c.cache[k]

\* C26: a findSplit call none of whose cached heights is a split-point
\* returns the smallest height from left = forkHeightCache[0] (0 without a
\* cache) on at which the two nodes' hashes differ, and never a height above
\* highest, whatever forkHeightCache[0] is.
C26_SearchFromLeftUpToHighest ==
    \A c \in round.calls :
        (\A k \in 1..Len(c.cache) : ~Qualifies(c, c.cache[k])) =>
            /\ c.split <= c.highest
            /\ c.split >= leftOf(c.cache)
            /\ c.split \in c.differs
            /\ \A h \in leftOf(c.cache)..c.highest :
                   h \in c.differs => c.split <= h

\* C27: in a round before which no endpoint changed its chain since the
\* round before, in which no node's head moved and all nodes of which were
\* active in the round before as well, every findSplit call returns what the
\* binary search without a cache returns for the same nodes.
C27_CacheAgreesWithPlainSearch ==
    \A c \in round.calls :
        (round.quiet /\ round.back = {} /\ round.failed = {})
            => c.split = c.plain

\* C29: the pair scan over one node per distinct head hash ends a round with
\* the heads and the splitSize that the scan over every pair of active nodes
\* ends with.
C29_RepresentativesSuffice ==
    ~mon.panicked =>
        /\ round.heads = round.every.heads
        /\ round.splitSize = round.every.splitSize

\* The requests of node i's RemoteNode to its endpoint that are in flight.
InFlight(i) ==
    { k \in Workers :
        scan.w[k].node = i /\ scan.w[k].pc \in {"request", "refetch"} }

\* C30: at no time are two requests of one node in flight, and no worker
\* looks a height up in the chainHistory of a node while another worker's
\* fetchHeader is between deleting a stale entry of it and the end of its
\* loop.
C30_OneCallPerNode ==
    /\ \A i \in NodeIds : Cardinality(InFlight(i)) <= 1
    /\ \A k1, k2 \in Workers :
          (k1 # k2 /\ scan.w[k1].pc = "locked" /\ scan.w[k2].repair)
              => scan.w[k1].node # scan.w[k2].node

\* A worker's refetch of a stale entry of a node is in flight while another
\* worker, on another pair, is blocked in a call on the same node.
C30_Witness ==
    \E k1, k2 \in Workers :
        /\ scan.w[k1].pc = "refetch"
        /\ scan.w[k1].repair
        /\ scan.w[k2].pc = "waiting"
        /\ scan.w[k2].node = scan.w[k1].node
        /\ scan.w[k2].pair # scan.w[k1].pair


\* The height of the k-th request of a call on endpoint c (the first may be
\* for Latest).
NumAt(c, q, k) == IF q[k] = Latest THEN c.head ELSE q[k]

\* The first request of q was for a height and every further one for the
\* height below the one before.
Descends(c, q) ==
    \A k \in 2..Len(q) : q[k] = NumAt(c, q, k - 1) - 1

\* With every request answered by c and chainHistory ch before the call,
\* the requests went on below a height only where the cached block below it
\* did not chain to the header fetched, and ended at a height the endpoint
\* does not have, at height 0, at a gap or at a cached block that chains.
StopsWhereChained(c, ch, q) ==
    /\ \A k \in 1..(Len(q) - 1) :
          /\ NumAt(c, q, k) <= c.head
          /\ (NumAt(c, q, k) - 1) \in DOMAIN ch
          /\ ch[NumAt(c, q, k) - 1].hash # Header(c, NumAt(c, q, k)).pHash
    /\ \E m \in {NumAt(c, q, Len(q))} :
          \/ m > c.head
          \/ m = 0
          \/ (m - 1) \notin DOMAIN ch
          \/ ch[m - 1].hash = Header(c, m).pHash

\* C35: the requests of a call that fetches a header go down one height at a
\* time from the height fetched, so each height is asked for once at most;
\* and where the endpoint answers them all they stop at the first cached
\* block that chains to the header above it, at the first gap, at height 0
\* or at a height the endpoint cannot serve.
C35_ReconcileStops ==
    [][ (remote' = remote /\ last'.req # <<>>)
            => /\ Descends(remote[1], last'.req)
               /\ faults' = faults
                    => StopsWhereChained(remote[1], nodes[1].chainHistory,
                                         last'.req) ]_vars

\* C35's case: a call fetched a header and then the two blocks below it, down
\* to height 0.
C35_Witness ==
    /\ Len(last.req) = 3
    /\ last.req[3] = 0
    /\ last.wrong = FALSE

\* C36: with latest known, an unforced HashAt for a height not above latest
\* returns the hash of the block an unforced BlockAt returns for that height
\* in the same node state, and the zero hash exactly when BlockAt returns no
\* block (every request answered by the endpoint).
C36_HashAtIsBlockAt ==
    [][ ( /\ remote' = remote
          /\ faults' = faults
          /\ last'.op = "HashAt"
          /\ ~last'.force
          /\ nodes[1].latest # NoBlock
          /\ last'.num <= nodes[1].latest.num )
            => \E b \in {BlockAt(remote[1], nodes[1], last'.num, FALSE,
                                 NoFault).bl} :
                 /\ (b = NoBlock) <=> (last'.hash = ZeroHash)
                 /\ b # NoBlock => last'.hash = b.hash ]_vars

\* ------------------------------------ claims on a RemoteNode's outbound calls
\* C31: every request a call of the node makes to its endpoint (for a header,
\* the version or the bad blocks) has a token taken from node.throttle: a
\* call makes no more requests than it takes tokens.
C31_TokenBeforeCall ==
    last.nreq <= last.tokens


\* ------------------------------------------------ claims on the pair scan
\* The pairs received so far, and the unordered pairs of distinct elements
\* of a list.
SentPairs == { scan.sent[n][2] : n \in 1..Len(scan.sent) }
Unordered(list) ==
    { {list[i], list[j]} : i, j \in 1..Len(list) } \
        { {list[i]} : i \in 1..Len(list) }

\* C32: forPairs hands every unordered pair of distinct representatives to the
\* closure exactly once: no pair of a node with itself, no pair twice in
\* either order, each pair received by one worker; and when forPairs has
\* returned every pair was received, its closure has returned, the channel is
\* closed and every worker has ended.
C32_EveryPairOnce ==
    /\ \A n \in 1..Len(scan.sent) :
          /\ scan.sent[n][2][1] # scan.sent[n][2][2]
          /\ \A m \in 1..Len(scan.sent) :
                m # n =>
                  {scan.sent[m][2][1], scan.sent[m][2][2]}
                      # {scan.sent[n][2][1], scan.sent[n][2][2]}
    /\ \A k \in Workers :
          scan.w[k].pair # <<>> =>
              /\ Cardinality({ n \in 1..Len(scan.sent) :
                                 scan.sent[n][2] = scan.w[k].pair }) = 1
              /\ \A n \in 1..Len(scan.sent) :
                    scan.sent[n][2] = scan.w[k].pair => scan.sent[n][1] = k
    /\ scan.over =>
          /\ { {p[1], p[2]} : p \in SentPairs } = Unordered(scan.elems)
          /\ Len(scan.sent) = Cardinality(Unordered(scan.elems))
          /\ scan.pairs = <<>>
          /\ scan.closed
          /\ \A k \in Workers :
                scan.w[k].pc = "done" /\ scan.w[k].pair = <<>>

\* C32's case: forPairs has returned, three pairs went through the channel
\* and both workers received some of them.
C32_Witness ==
    /\ scan.over
    /\ Len(scan.sent) = 3
    /\ \E m, n \in 1..Len(scan.sent) : scan.sent[m][1] # scan.sent[n][1]


\* The workers that are between headMu.Lock() and headMu.Unlock().
InHeads == { k \in Workers :
               scan.w[k].pc \in {"headread", "headwrite", "headunlock"} }

\* C33: a worker reads and writes heads only while it holds headMu, which one
\* worker holds at a time, and when forPairs has returned heads holds every
\* split a closure found and, for a split above 0, the height below it.
C33_HeadsUnderMutex ==
    /\ \A k \in InHeads : scan.headMu = k
    /\ Cardinality(InHeads) <= 1
    /\ scan.over =>
          \A h \in scan.found :
              /\ h \in scan.heads
              /\ h > 0 => (h - 1) \in scan.heads

\* C33's case: a worker holds headMu and has read heads while the other,
\* with a split of its own, waits for headMu.
C33_Witness ==
    \E k1, k2 \in Workers :
        /\ scan.w[k1].pc = "headwrite"
        /\ scan.w[k2].pc = "headwait"
        /\ scan.headMu = k1


\* ----------------------------------------- claims on a round's goroutines
\* C34: a round whose calls to the endpoints all return comes to its end:
\* every head-refresh goroutine has sent its node on doneCh, the pair channel
\* is closed, every worker has ended, forPairs has returned and no node's mu
\* is held.
C34_RoundTerminates ==
    <>( /\ refresh.phase = "scan"
        /\ \A i \in NodeIds : refresh.pc[i] = "done"
        /\ scan.over
        /\ scan.closed
        /\ \A k \in Workers : scan.w[k].pc = "done"
        /\ \A i \in NodeIds : scan.mu[i] = 0 )

\* C34's case: a worker waits for the mu of a node while the other worker,
\* holding it, has a request to the endpoint in flight, in a round that has
\* received every node on doneCh.
C34_Witness ==
    /\ refresh.phase = "scan"
    /\ \E k1, k2 \in Workers :
          /\ scan.w[k1].pc = "waiting"
          /\ scan.w[k2].pc \in {"request", "refetch"}
          /\ scan.w[k1].node = scan.w[k2].node
          /\ scan.mu[scan.w[k2].node] = k2


\* --------------------------------------------- claims on a round's report
\* The entries without a number (their RLP does not decode) in the lists of
\* the endpoints in up: pairs of node and hash.
Undecoded(bad, up) ==
    UNION { { <<i, bad[i][k].hash>> :
                k \in { x \in 1..Len(bad[i]) :
                          bad[i][x].number = NilNumber } } : i \in up }

\* C37: a round in which a reachable endpoint lists a bad block whose RLP
\* does not decode comes to its end, with the block in badBlocks under its
\* hash, the node among its clients, and in the report's BadBlocks.
C37_UndecodableStillReported ==
    [][ (round'.n = round.n + 1)
            => \A e \in Undecoded(remoteBad, round'.up) :
                 /\ ~mon'.panicked
                 /\ e[2] \in DOMAIN mon'.badBlocks
                 /\ e[1] \in Range(mon'.badBlocks[e[2]].Clients)
                 /\ e[2] \in Range(mon'.lastReport.BadBlocks) ]_vars


\* C38: in the first loop of findSplits BlockAt(HeadNum, false) of every
\* active node returns a block, so the loop dereferences no nil block: the
\* round goes on, and heads holds the head number of every active node.
C38_ActiveNodeHasHead ==
    round.n >= 1 =>
        /\ ~mon.panicked
        /\ \A i \in Range(round.activeNodes) :
              /\ nodes[i].latest # NoBlock
              /\ nodes[i].latest.num \in round.heads

\* C38's case: a round with every node active, one of them back after a
\* round in which it was unreachable, and heads at two heights or more.
C38_Witness ==
    /\ round.n >= 2
    /\ ~round.changed
    /\ Len(round.activeNodes) = NumNodes
    /\ round.back # {}
    /\ Cardinality({ nodes[i].latest.num : i \in NodeIds }) >= 2


\* C40: after a round the report has one column for every configured node,
\* in the configured order, reachable or not; Numbers lists each height once
\* and has a row for each, and a row has one cell per column: empty, or the
\* hash of the block node i holds at the height.
C40_OneColumnPerNode ==
    (round.n >= 1 /\ ~mon.panicked) =>
        /\ Len(lastReport.Cols) = NumNodes
        /\ \A i \in NodeIds : lastReport.Cols[i].Name = i
        /\ Cardinality(Range(lastReport.Numbers)) = Len(lastReport.Numbers)
        /\ DOMAIN lastReport.Rows = Range(lastReport.Numbers)
        /\ \A n \in Range(lastReport.Numbers) :
              /\ Len(lastReport.Rows[n]) = NumNodes
              /\ \A i \in NodeIds :
                    \/ lastReport.Rows[n][i] = EmptyCell
                    \/ /\ n \in DOMAIN nodes[i].chainHistory
                       /\ lastReport.Rows[n][i]
                            = nodes[i].chainHistory[n].hash

\* C40's case: a round with an unreachable node and rows at two heights or
\* more, one of them with an empty cell and a hash.
C40_Witness ==
    /\ round.n >= 1
    /\ ~round.changed
    /\ round.failed # {}
    /\ Len(lastReport.Numbers) >= 2
    /\ \E n \in Range(lastReport.Numbers) :
          \E i, j \in NodeIds :
              /\ lastReport.Rows[n][i] = EmptyCell
              /\ lastReport.Rows[n][j] # EmptyCell


\* findSplits over the nodes as the scan in progress found them, its pairs
\* taken one after the other in the order they were sent.
OneByOne ==
    findSplits(startRound(remote, scan.start, NodeIds), mon.forkHeightCache,
               SortByName(NodeIds))

\* The report doChecks builds after a scan that left the nodes as ns and
\* returned heads.
ReportOf(ns, heads) ==
    reportNodes([st |-> startRound(remote, ns, NodeIds),
                 r |-> NewReport(SortDesc(heads))], 1).r

\* C39: however the workers of the pair scan interleave, the round has the
\* representatives and the report (Numbers, and every row) it has when the
\* pairs are taken one after the other.  In the scan of a later round a
\* closure may fetch a block below a stale entry of a node's chainHistory and
\* so repair it: the closure of another pair on that node finds one split
\* before the repair and another after it.
C39_ScheduleIndependent ==
    scan.over =>
        \E one \in {OneByOne} :
            /\ scan.elems = one.distinctNodes
            /\ \E r1 \in {ReportOf(nodes, scan.heads)},
                  r2 \in {ReportOf(one.st.ns, one.heads)} :
                  /\ r1.Numbers = r2.Numbers
                  /\ r1.Rows = r2.Rows

====
